---- MODULE Spec2Model ----
(***************************************************************************)
(* Board engine of the no-rotation falling-piece game (class Game of       *)
(* src/unnamed/part_000).  Each method of the class is an operator from a  *)
(* game record to the game record it leaves behind; the actions apply one  *)
(* method call to the state.                                               *)
(*                                                                         *)
(* Time is counted in microseconds (0.8 s = 800000), so that the fall      *)
(* speeds of the first levels are whole numbers.  Row 0 of the board is    *)
(* board[1] and column 0 of a row is row[1]: sequences start at 1.         *)
(***************************************************************************)
EXTENDS Integers, Sequences, FiniteSets, TLC

\* ---------------------------------------------------------------- constants
GRID_WIDTH == 10
GRID_HEIGHT == 20
PREVIEW_COUNT == 3
BASE_FALL_SPEED == 800000
FAST_FALL_SPEED == 50000
LEVEL_UP_LINES == 10
\* SPEED_INCREASE_FACTOR = 0.9 as a fraction
SPEED_INCREASE_NUM == 9
SPEED_INCREASE_DEN == 10
SCORE_PER_LINE == <<0, 100, 300, 500, 800>>

SHAPES ==
  << [shape |-> << <<0, 0>>, <<-1, 0>>, <<1, 0>>, <<2, 0>> >>,   colorIndex |-> 0],
     [shape |-> << <<0, 0>>, <<1, 0>>, <<0, 1>>, <<1, 1>> >>,    colorIndex |-> 1],
     [shape |-> << <<0, 0>>, <<-1, 0>>, <<1, 0>>, <<0, 1>> >>,   colorIndex |-> 2],
     [shape |-> << <<0, 0>>, <<-1, 0>>, <<0, -1>>, <<1, -1>> >>, colorIndex |-> 3],
     [shape |-> << <<0, 0>>, <<1, 0>>, <<0, -1>>, <<-1, -1>> >>, colorIndex |-> 4],
     [shape |-> << <<0, 0>>, <<-1, 0>>, <<1, 0>>, <<-1, 1>> >>,  colorIndex |-> 5],
     [shape |-> << <<0, 0>>, <<-1, 0>>, <<1, 0>>, <<1, 1>> >>,   colorIndex |-> 6] >>

PLAYING == "PLAYING"
GAME_OVER == "GAME_OVER"

\* null, for currentPiece: a record of the same form that is no catalog shape
NoPiece == [shape |-> << >>, colorIndex |-> 0 - 1]

\* NaN, for a score that had an undefined table entry added to it
NaN == 0 - 1

\* ------------------------------------------------------------------- bounds
\* the grid the game is constructed with (gridConfig of the constructor)
ConfigWidth == 5
ConfigHeight == 3
\* selections (spawned pieces) per game before the model stops selecting
MaxPieces == 2

\* frame times handed to update, in microseconds
DeltaTimes == {0, 400000}

\* Math.random is bounded to two catalog indices per run; the runs together
\* cover the seven shapes
RandomSources == {{0, 1}, {1, 2}, {3, 4}, {5, 6}}

\* selection indices: inputs.selectShape is a number, undefined or null
Num(i) == [kind |-> "number", value |-> i]
Undefined == [kind |-> "undefined", value |-> 0]
Null == [kind |-> "null", value |-> 0]
ValidIndices == {Num(i) : i \in 0 .. PREVIEW_COUNT - 1}
InvalidIndices == {Num(0 - 1), Num(PREVIEW_COUNT), Undefined}
Indices == ValidIndices \cup InvalidIndices

\* the frame inputs InputManager hands to update: a preview slot or null
Inputs ==
  [moveLeft : BOOLEAN, moveRight : BOOLEAN, drop : BOOLEAN,
   selectShape : ValidIndices \cup {Null}]

\* -------------------------------------------------------------------- state
\* The fields of the Game object, and beside them: pieces, the selectShape
\* calls since init(); randomSource, the indices Math.random is bounded to;
\* lastIndex, the index given to the last selectShape call that SpecSelect
\* made (Null when there is none since init(); the other specifications do
\* not log it); thrown, whether a call has raised an exception.
\* The page around the engine: frameInputs, the flags of the InputManager;
\* gameLoopId, 0 for null and 1 for the id of the newest animation-frame
\* request; requests, the animation-frame callbacks that are pending;
\* lastSelect, the inputs.selectShape handed to the last game.update call of
\* the loop.
\* The cube-counting quiz of src/game.js, a page of its own: cubeCounter, the
\* fields of the CubeCounterGame object; timeouts, the setTimeout callbacks
\* that are pending; clock, performance.now() counted from the last
\* renderCubes() call in units of 100 ms; answered, the checkAnswer calls
\* since the last generateLevel().
VARIABLES gridWidth, gridHeight, board, currentPiece, currentPosition,
          nextShapes, score, linesCleared, level, fallTimer,
          currentFallSpeed, isDropping, gameState, pieces, randomSource,
          lastIndex, thrown, frameInputs, gameLoopId, requests, lastSelect,
          cubeCounter, timeouts, clock, answered

vars == <<gridWidth, gridHeight, board, currentPiece, currentPosition,
          nextShapes, score, linesCleared, level, fallTimer,
          currentFallSpeed, isDropping, gameState, pieces, randomSource,
          lastIndex, thrown, frameInputs, gameLoopId, requests, lastSelect,
          cubeCounter, timeouts, clock, answered>>

\* the variables of the page around the engine (src/main.js, src/input.js)
page == <<frameInputs, gameLoopId, requests, lastSelect>>

\* the variables of the cube-counting quiz (src/game.js)
quiz == <<cubeCounter, timeouts, clock, answered>>

\* the variables that are fields of the Game object
fields == <<gridWidth, gridHeight, board, currentPiece, currentPosition,
            nextShapes, score, linesCleared, level, fallTimer,
            currentFallSpeed, isDropping, gameState>>

\* the fields of the Game object, as one record
Game ==
  [gridWidth |-> gridWidth, gridHeight |-> gridHeight, board |-> board,
   currentPiece |-> currentPiece, currentPosition |-> currentPosition,
   nextShapes |-> nextShapes, score |-> score, linesCleared |-> linesCleared,
   level |-> level, fallTimer |-> fallTimer,
   currentFallSpeed |-> currentFallSpeed, isDropping |-> isDropping,
   gameState |-> gameState]

Starts(g) ==
  /\ gridWidth = g.gridWidth
  /\ gridHeight = g.gridHeight
  /\ board = g.board
  /\ currentPiece = g.currentPiece
  /\ currentPosition = g.currentPosition
  /\ nextShapes = g.nextShapes
  /\ score = g.score
  /\ linesCleared = g.linesCleared
  /\ level = g.level
  /\ fallTimer = g.fallTimer
  /\ currentFallSpeed = g.currentFallSpeed
  /\ isDropping = g.isDropping
  /\ gameState = g.gameState

Becomes(g) ==
  /\ gridWidth' = g.gridWidth
  /\ gridHeight' = g.gridHeight
  /\ board' = g.board
  /\ currentPiece' = g.currentPiece
  /\ currentPosition' = g.currentPosition
  /\ nextShapes' = g.nextShapes
  /\ score' = g.score
  /\ linesCleared' = g.linesCleared
  /\ level' = g.level
  /\ fallTimer' = g.fallTimer
  /\ currentFallSpeed' = g.currentFallSpeed
  /\ isDropping' = g.isDropping
  /\ gameState' = g.gameState

\* ------------------------------------------------------------------ helpers
EmptyRow(w) == [x \in 1 .. w |-> 0]

RowFull(row) == \A x \in 1 .. Len(row) : row[x] # 0

Max(a, b) == IF a >= b THEN a ELSE b

\* splice that removes the element after the one asked for
RemoveAt_OffByOne(s, i) == SubSeq(s, 1, i + 1) \o SubSeq(s, i + 3, Len(s))

\* Array.prototype.splice(i, 1) on a sequence, i counted from 0
RemoveAt(s, i) == SubSeq(s, 1, i) \o SubSeq(s, i + 2, Len(s))

\* BASE_FALL_SPEED * SPEED_INCREASE_FACTOR ^ (lvl - 1)
RECURSIVE DecayedSpeed(_)
DecayedSpeed(lvl) ==
  IF lvl <= 1 THEN BASE_FALL_SPEED
  ELSE (DecayedSpeed(lvl - 1) * SPEED_INCREASE_NUM) \div SPEED_INCREASE_DEN

\* ------------------------------------------------------------ the methods
\* constructor(gridConfig): a width or height that is 0 or missing (0 here)
\* falls back to the default
constructor(width, height) ==
  [gridWidth |-> IF width # 0 THEN width ELSE GRID_WIDTH,
   gridHeight |-> IF height # 0 THEN height ELSE GRID_HEIGHT,
   board |-> << >>,
   currentPiece |-> NoPiece,
   currentPosition |-> [x |-> 0, y |-> 0],
   nextShapes |-> << >>,
   score |-> 0, linesCleared |-> 0, level |-> 1, fallTimer |-> 0,
   currentFallSpeed |-> BASE_FALL_SPEED, isDropping |-> FALSE,
   gameState |-> PLAYING]

\* generateRandomShape(): r is the random index, 0 .. SHAPES.length - 1
generateRandomShape(r) == SHAPES[r + 1]

RandomIndices == 0 .. Len(SHAPES) - 1

isValidMove(g, piece, position) ==
  IF piece = NoPiece THEN FALSE
  ELSE \A i \in 1 .. Len(piece.shape) :
         LET checkX == position.x + piece.shape[i][1]
             checkY == position.y + piece.shape[i][2]
         IN  IF checkX < 0 \/ checkX >= g.gridWidth \/ checkY < 0
             THEN checkY >= g.gridHeight
             ELSE ~ ( /\ checkY < g.gridHeight
                      /\ checkY + 1 \in DOMAIN g.board
                      /\ g.board[checkY + 1][checkX + 1] # 0 )

\* the spawn that keeps the piece it could not place
spawnNewPiece_KeepPiece(g) ==
  LET maxY == IF g.currentPiece = NoPiece THEN 0
              ELSE CHOOSE m \in {0} \cup {g.currentPiece.shape[i][2] :
                                          i \in 1 .. Len(g.currentPiece.shape)} :
                     \A i \in 1 .. Len(g.currentPiece.shape) :
                         g.currentPiece.shape[i][2] <= m
      pos == [x |-> g.gridWidth \div 2, y |-> g.gridHeight - 1 - maxY]
      g1 == [g EXCEPT !.isDropping = FALSE, !.fallTimer = 0,
                      !.currentPosition = pos]
  IN  IF ~ isValidMove(g1, g1.currentPiece, g1.currentPosition)
      THEN [g1 EXCEPT !.gameState = GAME_OVER]
      ELSE g1

\* the spawn that puts a game back in play when the piece fits
spawnNewPiece_Resumes(g) ==
  LET maxY == IF g.currentPiece = NoPiece THEN 0
              ELSE CHOOSE m \in {0} \cup {g.currentPiece.shape[i][2] :
                                          i \in 1 .. Len(g.currentPiece.shape)} :
                     \A i \in 1 .. Len(g.currentPiece.shape) :
                         g.currentPiece.shape[i][2] <= m
      pos == [x |-> g.gridWidth \div 2, y |-> g.gridHeight - 1 - maxY]
      g1 == [g EXCEPT !.isDropping = FALSE, !.fallTimer = 0,
                      !.currentPosition = pos]
  IN  IF ~ isValidMove(g1, g1.currentPiece, g1.currentPosition)
      THEN [g1 EXCEPT !.gameState = GAME_OVER, !.currentPiece = NoPiece]
      ELSE [g1 EXCEPT !.gameState = PLAYING]

\* the spawn at the top row whatever the height of the shape
spawnNewPiece_NoAdjust(g) ==
  LET pos == [x |-> g.gridWidth \div 2, y |-> g.gridHeight - 1]
      g1 == [g EXCEPT !.isDropping = FALSE, !.fallTimer = 0,
                      !.currentPosition = pos]
  IN  IF ~ isValidMove(g1, g1.currentPiece, g1.currentPosition)
      THEN [g1 EXCEPT !.gameState = GAME_OVER, !.currentPiece = NoPiece]
      ELSE g1

spawnNewPiece(g) ==
  LET maxY == IF g.currentPiece = NoPiece THEN 0
              ELSE CHOOSE m \in {0} \cup {g.currentPiece.shape[i][2] :
                                          i \in 1 .. Len(g.currentPiece.shape)} :
                     \A i \in 1 .. Len(g.currentPiece.shape) :
                         g.currentPiece.shape[i][2] <= m
      pos == [x |-> g.gridWidth \div 2, y |-> g.gridHeight - 1 - maxY]
      g1 == [g EXCEPT !.isDropping = FALSE, !.fallTimer = 0,
                      !.currentPosition = pos]
  IN  IF ~ isValidMove(g1, g1.currentPiece, g1.currentPosition)
      THEN [g1 EXCEPT !.gameState = GAME_OVER, !.currentPiece = NoPiece]
      ELSE g1

\* the fallback that takes the last slot, not slot 0
selectShape_FallbackLast(g, index, r) ==
  LET invalid == \/ index.kind # "number"
                 \/ index.value < 0
                 \/ index.value >= Len(g.nextShapes)
      i == IF invalid THEN Len(g.nextShapes) - 1 ELSE index.value
  IN  IF invalid /\ Len(g.nextShapes) = 0 THEN g
      ELSE spawnNewPiece(
             [g EXCEPT !.currentPiece = g.nextShapes[i + 1],
                       !.nextShapes = Append(RemoveAt(g.nextShapes, i),
                                             generateRandomShape(r))])

\* the selection that does not refill the preview
selectShape_NoRefill(g, index, r) ==
  LET invalid == \/ index.kind # "number"
                 \/ index.value < 0
                 \/ index.value >= Len(g.nextShapes)
      i == IF invalid THEN 0 ELSE index.value
  IN  IF invalid /\ Len(g.nextShapes) = 0 THEN g
      ELSE spawnNewPiece(
             [g EXCEPT !.currentPiece = g.nextShapes[i + 1],
                       !.nextShapes = RemoveAt(g.nextShapes, i)])

\* index is a number, or undefined; r is the random index of the refill
selectShape(g, index, r) ==
  LET invalid == \/ index.kind # "number"
                 \/ index.value < 0
                 \/ index.value >= Len(g.nextShapes)
      i == IF invalid THEN 0 ELSE index.value
  IN  IF invalid /\ Len(g.nextShapes) = 0 THEN g
      ELSE spawnNewPiece(
             [g EXCEPT !.currentPiece = g.nextShapes[i + 1],
                       !.nextShapes = Append(RemoveAt(g.nextShapes, i),
                                             generateRandomShape(r))])

\* the reset that keeps the score, the lines and the level of the last game
init_KeepsCounters(g, r1, r2, r3, r4) ==
  selectShape(
    [g EXCEPT !.board = [y \in 1 .. g.gridHeight |-> EmptyRow(g.gridWidth)],
              !.isDropping = FALSE,
              !.fallTimer = 0, !.gameState = PLAYING,
              !.nextShapes = <<generateRandomShape(r1), generateRandomShape(r2),
                               generateRandomShape(r3)>>],
    Num(0), r4)

\* init() evaluates Array(this.gridWidth) once per row: a negative length
\* raises a RangeError, before any field is assigned
initThrows(g) == g.gridWidth < 0 /\ g.gridHeight > 0

\* r1, r2, r3 fill the preview, r4 refills it after the first selection
init(g, r1, r2, r3, r4) ==
  selectShape(
    [g EXCEPT !.board = [y \in 1 .. g.gridHeight |-> EmptyRow(g.gridWidth)],
              !.score = 0, !.linesCleared = 0, !.level = 1,
              !.currentFallSpeed = BASE_FALL_SPEED, !.isDropping = FALSE,
              !.fallTimer = 0, !.gameState = PLAYING,
              !.nextShapes = <<generateRandomShape(r1), generateRandomShape(r2),
                               generateRandomShape(r3)>>],
    Num(0), r4)

\* the move that leaves the fall timer running
moveHorizontal_KeepsTimer(g, direction) ==
  IF g.gameState # PLAYING \/ g.currentPiece = NoPiece THEN g
  ELSE LET newPosition == [g.currentPosition EXCEPT !.x = @ + direction]
       IN  IF isValidMove(g, g.currentPiece, newPosition)
           THEN [g EXCEPT !.currentPosition = newPosition]
           ELSE g

\* the drop request that a horizontal move cancels
moveHorizontal_EndsDrop(g, direction) ==
  IF g.gameState # PLAYING \/ g.currentPiece = NoPiece THEN g
  ELSE LET newPosition == [g.currentPosition EXCEPT !.x = @ + direction]
       IN  IF isValidMove(g, g.currentPiece, newPosition)
           THEN [g EXCEPT !.currentPosition = newPosition, !.fallTimer = 0,
                          !.isDropping = FALSE]
           ELSE g

\* the move that does not ask isValidMove
moveHorizontal_NoCheck(g, direction) ==
  IF g.gameState # PLAYING \/ g.currentPiece = NoPiece THEN g
  ELSE [g EXCEPT !.currentPosition.x = @ + direction, !.fallTimer = 0]

moveHorizontal(g, direction) ==
  IF g.gameState # PLAYING \/ g.currentPiece = NoPiece THEN g
  ELSE LET newPosition == [g.currentPosition EXCEPT !.x = @ + direction]
       IN  IF isValidMove(g, g.currentPiece, newPosition)
           THEN [g EXCEPT !.currentPosition = newPosition, !.fallTimer = 0]
           ELSE g

startDropping(g) ==
  IF g.gameState = PLAYING /\ g.currentPiece # NoPiece
  THEN [g EXCEPT !.isDropping = TRUE]
  ELSE g

\* the loop without the push of an empty row
RECURSIVE ClearScan_NoPush(_, _, _, _)
ClearScan_NoPush(b, w, y, count) ==
  IF y >= Len(b) THEN <<b, count>>
  ELSE IF RowFull(b[y + 1])
       THEN ClearScan_NoPush(RemoveAt(b, y), w, y, count + 1)
       ELSE ClearScan_NoPush(b, w, y + 1, count)

\* the loop without the y-- after a removal
RECURSIVE ClearScan_Skip(_, _, _, _)
ClearScan_Skip(b, w, y, count) ==
  IF y >= Len(b) THEN <<b, count>>
  ELSE IF RowFull(b[y + 1])
       THEN ClearScan_Skip(Append(RemoveAt(b, y), EmptyRow(w)), w, y + 1,
                           count + 1)
       ELSE ClearScan_Skip(b, w, y + 1, count)

\* the loop that marks the rows it shifts down
RECURSIVE ClearScan_Recolours(_, _, _, _)
ClearScan_Recolours(b, w, y, count) ==
  IF y >= Len(b) THEN <<b, count>>
  ELSE IF RowFull(b[y + 1])
       THEN ClearScan_Recolours(
              [k \in 1 .. Len(b) |->
                 IF k = Len(b) THEN EmptyRow(w)
                 ELSE IF k <= y THEN b[k]
                 ELSE [x \in 1 .. w |-> IF b[k + 1][x] = 0 THEN 0 ELSE 8]],
              w, y, count + 1)
       ELSE ClearScan_Recolours(b, w, y + 1, count)

\* the loop that counts the cells of the rows it removes
RECURSIVE ClearScan_CountsCells(_, _, _, _)
ClearScan_CountsCells(b, w, y, count) ==
  IF y >= Len(b) THEN <<b, count>>
  ELSE IF RowFull(b[y + 1])
       THEN ClearScan_CountsCells(Append(RemoveAt(b, y), EmptyRow(w)), w, y,
                                  count + w)
       ELSE ClearScan_CountsCells(b, w, y + 1, count)

\* the loop that empties a full row where it is, shifting nothing
RECURSIVE ClearScan_NoShift(_, _, _, _)
ClearScan_NoShift(b, w, y, count) ==
  IF y >= Len(b) THEN <<b, count>>
  ELSE IF RowFull(b[y + 1])
       THEN ClearScan_NoShift([b EXCEPT ![y + 1] = EmptyRow(w)], w, y + 1,
                              count + 1)
       ELSE ClearScan_NoShift(b, w, y + 1, count)

\* the loop of clearLines from row y on: <<board, linesClearedCount>>
RECURSIVE ClearScan(_, _, _, _)
ClearScan(b, w, y, count) ==
  IF y >= Len(b) THEN <<b, count>>
  ELSE IF RowFull(b[y + 1])
       THEN ClearScan(Append(RemoveAt(b, y), EmptyRow(w)), w, y, count + 1)
       ELSE ClearScan(b, w, y + 1, count)

\* the score without the level factor
AddScore_NoLevel(sc, n, lvl) ==
  IF sc = NaN \/ n + 1 > Len(SCORE_PER_LINE) THEN NaN
  ELSE sc + SCORE_PER_LINE[n + 1]

\* the score with the points taken off
AddScore_Subtract(sc, n, lvl) ==
  IF sc = NaN \/ n + 1 > Len(SCORE_PER_LINE) THEN NaN
  ELSE sc - SCORE_PER_LINE[n + 1] * lvl

\* SCORE_PER_LINE[n] * level added to the score; an index past the table is
\* undefined and makes the score NaN
AddScore(sc, n, lvl) ==
  IF sc = NaN \/ n + 1 > Len(SCORE_PER_LINE) THEN NaN
  ELSE sc + SCORE_PER_LINE[n + 1] * lvl

\* the level without the + 1
NewLevel_NoPlusOne(lines) == lines \div LEVEL_UP_LINES

\* Math.floor(this.linesCleared / LEVEL_UP_LINES) + 1
NewLevel(lines) == (lines \div LEVEL_UP_LINES) + 1

\* the level-up that takes the speed of the level before
clearLines_SpeedOfOldLevel(g) ==
  LET scan == ClearScan(g.board, g.gridWidth, 0, 0)
      linesClearedCount == scan[2]
      lines == g.linesCleared + linesClearedCount
      newLevel == NewLevel(lines)
      g1 == [g EXCEPT !.board = scan[1]]
  IN  IF linesClearedCount > 0
      THEN LET g2 == [g1 EXCEPT
                        !.score = AddScore(g.score, linesClearedCount, g.level),
                        !.linesCleared = lines]
           IN  IF newLevel > g.level
               THEN [g2 EXCEPT !.level = newLevel,
                               !.currentFallSpeed =
                                  Max(FAST_FALL_SPEED, DecayedSpeed(g.level))]
               ELSE g2
      ELSE g1

clearLines(g) ==
  LET scan == ClearScan(g.board, g.gridWidth, 0, 0)
      linesClearedCount == scan[2]
      lines == g.linesCleared + linesClearedCount
      newLevel == NewLevel(lines)
      g1 == [g EXCEPT !.board = scan[1]]
  IN  IF linesClearedCount > 0
      THEN LET g2 == [g1 EXCEPT
                        !.score = AddScore(g.score, linesClearedCount, g.level),
                        !.linesCleared = lines]
           IN  IF newLevel > g.level
               THEN [g2 EXCEPT !.level = newLevel,
                               !.currentFallSpeed =
                                  Max(FAST_FALL_SPEED, DecayedSpeed(newLevel))]
               ELSE g2
      ELSE g1

\* the cells written with colorIndex, not colorIndex + 1
RECURSIVE WriteCells_NoPlusOne(_, _, _, _)
WriteCells_NoPlusOne(b, piece, position, i) ==
  IF i > Len(piece.shape) THEN b
  ELSE LET boardX == position.x + piece.shape[i][1]
           boardY == position.y + piece.shape[i][2]
           inside == /\ boardY >= 0 /\ boardY < Len(b)
                     /\ boardX >= 0 /\ boardX < Len(b[1])
       IN  WriteCells_NoPlusOne(
             IF inside
             THEN [b EXCEPT ![boardY + 1][boardX + 1] = piece.colorIndex]
             ELSE b,
             piece, position, i + 1)

\* the write that leaves out the pivot cell of the piece
RECURSIVE WriteCells_SkipsPivot(_, _, _, _)
WriteCells_SkipsPivot(b, piece, position, i) ==
  IF i > Len(piece.shape) THEN b
  ELSE LET boardX == position.x + piece.shape[i][1]
           boardY == position.y + piece.shape[i][2]
           inside == /\ boardY >= 0 /\ boardY < Len(b)
                     /\ boardX >= 0 /\ boardX < Len(b[1])
                     /\ piece.shape[i] # <<0, 0>>
       IN  WriteCells_SkipsPivot(
             IF inside
             THEN [b EXCEPT ![boardY + 1][boardX + 1] = piece.colorIndex + 1]
             ELSE b,
             piece, position, i + 1)

\* the board with the cells of the piece written, the out-of-board ones skipped
RECURSIVE WriteCells(_, _, _, _)
WriteCells(b, piece, position, i) ==
  IF i > Len(piece.shape) THEN b
  ELSE LET boardX == position.x + piece.shape[i][1]
           boardY == position.y + piece.shape[i][2]
           inside == /\ boardY >= 0 /\ boardY < Len(b)
                     /\ boardX >= 0 /\ boardX < Len(b[1])
       IN  WriteCells(
             IF inside
             THEN [b EXCEPT ![boardY + 1][boardX + 1] = piece.colorIndex + 1]
             ELSE b,
             piece, position, i + 1)

\* the lock that ends the game when it leaves a cell in the top row
placePiece_TopOut(g) ==
  IF g.currentPiece = NoPiece THEN g
  ELSE LET written == WriteCells(g.board, g.currentPiece, g.currentPosition, 1)
           g1 == clearLines([g EXCEPT !.board = written])
       IN  [g1 EXCEPT !.currentPiece = NoPiece, !.isDropping = FALSE,
                      !.gameState = IF \E x \in 1 .. Len(written[Len(written)]) :
                                         written[Len(written)][x] # 0
                                    THEN GAME_OVER ELSE g1.gameState]

\* the lock that leaves the rows it has completed on the board
placePiece_NoClear(g) ==
  IF g.currentPiece = NoPiece THEN g
  ELSE [g EXCEPT !.board = WriteCells(g.board, g.currentPiece,
                                      g.currentPosition, 1),
                 !.currentPiece = NoPiece, !.isDropping = FALSE]

placePiece(g) ==
  IF g.currentPiece = NoPiece THEN g
  ELSE LET g1 == clearLines(
                   [g EXCEPT !.board = WriteCells(g.board, g.currentPiece,
                                                  g.currentPosition, 1)])
       IN  [g1 EXCEPT !.currentPiece = NoPiece, !.isDropping = FALSE]

\* the step down that resets the fall timer only when the piece moves
moveDown_TimerOnMove(g) ==
  IF g.gameState # PLAYING \/ g.currentPiece = NoPiece THEN g
  ELSE LET newPosition == [g.currentPosition EXCEPT !.y = @ - 1]
       IN  IF isValidMove(g, g.currentPiece, newPosition)
           THEN [g EXCEPT !.currentPosition = newPosition, !.fallTimer = 0]
           ELSE [placePiece(g) EXCEPT !.currentPiece = NoPiece]

\* the step down that leaves the piece in its row when the row below is free
moveDown_KeepsRow(g) ==
  IF g.gameState # PLAYING \/ g.currentPiece = NoPiece THEN g
  ELSE LET newPosition == [g.currentPosition EXCEPT !.y = @ - 1]
           g1 == IF isValidMove(g, g.currentPiece, newPosition)
                 THEN g
                 ELSE [placePiece(g) EXCEPT !.currentPiece = NoPiece]
       IN  [g1 EXCEPT !.fallTimer = 0]

moveDown(g) ==
  IF g.gameState # PLAYING \/ g.currentPiece = NoPiece THEN g
  ELSE LET newPosition == [g.currentPosition EXCEPT !.y = @ - 1]
           g1 == IF isValidMove(g, g.currentPiece, newPosition)
                 THEN [g EXCEPT !.currentPosition = newPosition]
                 ELSE [placePiece(g) EXCEPT !.currentPiece = NoPiece]
       IN  [g1 EXCEPT !.fallTimer = 0]

\* the frame that goes on to the moves and the fall timer after a selection
update_SelectThenMove(g, deltaTime, inputs, r) ==
  IF g.gameState # PLAYING THEN g
  ELSE LET g0 == IF g.currentPiece = NoPiece /\ inputs.selectShape # Null
                 THEN selectShape(g, inputs.selectShape, r) ELSE g
       IN  IF g0.currentPiece # NoPiece
           THEN LET g1 == IF inputs.moveLeft THEN moveHorizontal(g0, 0 - 1) ELSE g0
                    g2 == IF inputs.moveRight THEN moveHorizontal(g1, 1) ELSE g1
                    g3 == IF inputs.drop THEN startDropping(g2) ELSE g2
                    g4 == [g3 EXCEPT !.fallTimer = @ + deltaTime]
                    speed == IF g4.isDropping THEN FAST_FALL_SPEED
                             ELSE g4.currentFallSpeed
                IN  IF g4.fallTimer >= speed THEN moveDown(g4) ELSE g4
           ELSE g0

\* the frame that steps down once for every interval the timer holds
update_CatchUp(g, deltaTime, inputs, r) ==
  IF g.gameState # PLAYING THEN g
  ELSE IF g.currentPiece = NoPiece /\ inputs.selectShape # Null
  THEN selectShape(g, inputs.selectShape, r)
  ELSE IF g.currentPiece # NoPiece
  THEN LET g1 == IF inputs.moveLeft THEN moveHorizontal(g, 0 - 1) ELSE g
           g2 == IF inputs.moveRight THEN moveHorizontal(g1, 1) ELSE g1
           g3 == IF inputs.drop THEN startDropping(g2) ELSE g2
           g4 == [g3 EXCEPT !.fallTimer = @ + deltaTime]
           speed == IF g4.isDropping THEN FAST_FALL_SPEED
                    ELSE g4.currentFallSpeed
       IN  IF g4.fallTimer >= 2 * speed THEN moveDown(moveDown(g4))
           ELSE IF g4.fallTimer >= speed THEN moveDown(g4)
           ELSE g4
  ELSE g

\* the frame that selects whenever the inputs carry an index
update_SelectsAnyTime(g, deltaTime, inputs, r) ==
  IF g.gameState # PLAYING THEN g
  ELSE IF inputs.selectShape # Null
  THEN selectShape(g, inputs.selectShape, r)
  ELSE IF g.currentPiece # NoPiece
  THEN LET g1 == IF inputs.moveLeft THEN moveHorizontal(g, 0 - 1) ELSE g
           g2 == IF inputs.moveRight THEN moveHorizontal(g1, 1) ELSE g1
           g3 == IF inputs.drop THEN startDropping(g2) ELSE g2
           g4 == [g3 EXCEPT !.fallTimer = @ + deltaTime]
           speed == IF g4.isDropping THEN FAST_FALL_SPEED
                    ELSE g4.currentFallSpeed
       IN  IF g4.fallTimer >= speed THEN moveDown(g4) ELSE g4
  ELSE g

\* the frame that tries the move to the right before the move to the left
update_RightFirst(g, deltaTime, inputs, r) ==
  IF g.gameState # PLAYING THEN g
  ELSE IF g.currentPiece = NoPiece /\ inputs.selectShape # Null
  THEN selectShape(g, inputs.selectShape, r)
  ELSE IF g.currentPiece # NoPiece
  THEN LET g1 == IF inputs.moveRight THEN moveHorizontal(g, 1) ELSE g
           g2 == IF inputs.moveLeft THEN moveHorizontal(g1, 0 - 1) ELSE g1
           g3 == IF inputs.drop THEN startDropping(g2) ELSE g2
           g4 == [g3 EXCEPT !.fallTimer = @ + deltaTime]
           speed == IF g4.isDropping THEN FAST_FALL_SPEED
                    ELSE g4.currentFallSpeed
       IN  IF g4.fallTimer >= speed THEN moveDown(g4) ELSE g4
  ELSE g

\* the frame that lets the fall timer run while no piece is active
update_TimerWhileWaiting(g, deltaTime, inputs, r) ==
  IF g.gameState # PLAYING THEN g
  ELSE IF g.currentPiece = NoPiece /\ inputs.selectShape # Null
  THEN selectShape(g, inputs.selectShape, r)
  ELSE IF g.currentPiece # NoPiece
  THEN LET g1 == IF inputs.moveLeft THEN moveHorizontal(g, 0 - 1) ELSE g
           g2 == IF inputs.moveRight THEN moveHorizontal(g1, 1) ELSE g1
           g3 == IF inputs.drop THEN startDropping(g2) ELSE g2
           g4 == [g3 EXCEPT !.fallTimer = @ + deltaTime]
           speed == IF g4.isDropping THEN FAST_FALL_SPEED
                    ELSE g4.currentFallSpeed
       IN  IF g4.fallTimer >= speed THEN moveDown(g4) ELSE g4
  ELSE [g EXCEPT !.fallTimer = @ + deltaTime]

\* r is the random index of the refill, used when the call selects
update(g, deltaTime, inputs, r) ==
  IF g.gameState # PLAYING THEN g
  ELSE IF g.currentPiece = NoPiece /\ inputs.selectShape # Null
  THEN selectShape(g, inputs.selectShape, r)
  ELSE IF g.currentPiece # NoPiece
  THEN LET g1 == IF inputs.moveLeft THEN moveHorizontal(g, 0 - 1) ELSE g
           g2 == IF inputs.moveRight THEN moveHorizontal(g1, 1) ELSE g1
           g3 == IF inputs.drop THEN startDropping(g2) ELSE g2
           g4 == [g3 EXCEPT !.fallTimer = @ + deltaTime]
           speed == IF g4.isDropping THEN FAST_FALL_SPEED
                    ELSE g4.currentFallSpeed
       IN  IF g4.fallTimer >= speed THEN moveDown(g4) ELSE g4
  ELSE g

\* ------------------------------------------------------------------ actions
\* the flags of a new InputManager, and of resetFrameState()
NoInputs ==
  [moveLeft |-> FALSE, moveRight |-> FALSE, drop |-> FALSE,
   selectShape |-> Null]

\* the engine on its own: no page around it
NoPage ==
  /\ frameInputs = NoInputs
  /\ gameLoopId = 0
  /\ requests = 0
  /\ lastSelect = Null

\* the game state a new CubeCounterGame starts from, before startGame()
NewCubeCounter ==
  [level |-> 1, correctAnswer |-> 0, options |-> << >>,
   pileCounts |-> <<0, 0, 0>>, isProcessingAnswer |-> FALSE,
   animatingCubes |-> FALSE, cubesToAnimate |-> << >>,
   animationStartTime |-> 0]

\* the engine on its own: no quiz is on the page
NoQuiz ==
  /\ cubeCounter = NewCubeCounter
  /\ timeouts = 0
  /\ clock = 0
  /\ answered = 0

\* new Game(gridConfig)
Init ==
  /\ Starts(constructor(ConfigWidth, ConfigHeight))
  /\ pieces = 0
  /\ randomSource \in RandomSources
  /\ lastIndex = Null
  /\ thrown = FALSE
  /\ NoPage
  /\ NoQuiz

\* game.init(), at start and at every restart
CallInit ==
  IF initThrows(Game)
  THEN /\ thrown' = TRUE
       /\ UNCHANGED <<fields, pieces, randomSource, lastIndex, page, quiz>>
  ELSE \E r1, r2, r3, r4 \in randomSource :
         /\ Becomes(init(Game, r1, r2, r3, r4))
         /\ pieces' = 1
         /\ lastIndex' = Null
         /\ UNCHANGED <<randomSource, thrown, page, quiz>>

\* the other methods are called on an initialised game
Initialised == nextShapes # << >>

\* the call update(deltaTime, inputs) would select a shape
Selects(inputs) ==
  gameState = PLAYING /\ currentPiece = NoPiece /\ inputs.selectShape # Null

CallUpdate ==
  \E deltaTime \in DeltaTimes, inputs \in Inputs :
    \E r \in IF Selects(inputs) THEN randomSource ELSE {0} :
      /\ Initialised
      /\ Selects(inputs) => pieces < MaxPieces
      /\ pieces' = IF Selects(inputs) THEN pieces + 1 ELSE pieces
      /\ Becomes(update(Game, deltaTime, inputs, r))
      /\ UNCHANGED <<randomSource, lastIndex, thrown, page, quiz>>

CallSelectShape ==
  \E index \in Indices, r \in randomSource :
    /\ Initialised
    /\ pieces < MaxPieces
    /\ pieces' = pieces + 1
    /\ Becomes(selectShape(Game, index, r))
    /\ UNCHANGED <<randomSource, lastIndex, thrown, page, quiz>>

CallMoveHorizontal ==
  \E direction \in {0 - 1, 1} :
    /\ Initialised
    /\ Becomes(moveHorizontal(Game, direction))
    /\ UNCHANGED <<pieces, randomSource, lastIndex, thrown, page, quiz>>

CallMoveDown ==
  /\ Initialised
  /\ Becomes(moveDown(Game))
  /\ UNCHANGED <<pieces, randomSource, lastIndex, thrown, page, quiz>>

CallStartDropping ==
  /\ Initialised
  /\ Becomes(startDropping(Game))
  /\ UNCHANGED <<pieces, randomSource, lastIndex, thrown, page, quiz>>

CallPlacePiece ==
  /\ Initialised
  /\ Becomes(placePiece(Game))
  /\ UNCHANGED <<pieces, randomSource, lastIndex, thrown, page, quiz>>

CallClearLines ==
  /\ Initialised
  /\ Becomes(clearLines(Game))
  /\ UNCHANGED <<pieces, randomSource, lastIndex, thrown, page, quiz>>

Next ==
  \/ CallInit
  \/ CallUpdate
  \/ CallSelectShape
  \/ CallMoveHorizontal
  \/ CallMoveDown
  \/ CallStartDropping
  \/ CallPlacePiece
  \/ CallClearLines

Spec == Init /\ [][Next]_vars

\* ------------------------------------------------------ logged selections
\* selectShape(index) called directly, the index it was given kept
CallSelectShapeLogged ==
  \E index \in Indices, r \in randomSource :
    /\ Initialised
    /\ pieces < MaxPieces
    /\ pieces' = pieces + 1
    /\ lastIndex' = index
    /\ Becomes(selectShape(Game, index, r))
    /\ UNCHANGED <<randomSource, thrown, page, quiz>>

SelectNext ==
  \/ CallInit
  \/ CallSelectShapeLogged
  \/ CallMoveHorizontal
  \/ CallMoveDown

SpecSelect == Init /\ [][SelectNext]_vars

\* ------------------------------------------------------- the frame loop
\* The game as the page drives it: init() at start and at restart, and one
\* update(deltaTime, inputs) per animation frame; no other method of the
\* engine is called from outside.
LoopNext ==
  \/ CallInit
  \/ CallUpdate

SpecLoop == Init /\ [][LoopNext]_vars

\* ------------------------------------------------------ frames without end
\* The loop after game.init(): update is called once per animation frame,
\* and the browser keeps the frames coming, each with time elapsed since the
\* last one.
FallInit ==
  /\ randomSource \in RandomSources
  /\ \E r1, r2, r3, r4 \in randomSource :
       Starts(init(constructor(ConfigWidth, ConfigHeight), r1, r2, r3, r4))
  /\ pieces = 1
  /\ lastIndex = Null
  /\ thrown = FALSE
  /\ NoPage
  /\ NoQuiz

\* an update call with time elapsed: deltaTime > 0
CallUpdatePositive ==
  \E deltaTime \in {d \in DeltaTimes : d > 0}, inputs \in Inputs :
    \E r \in IF Selects(inputs) THEN randomSource ELSE {0} :
      /\ Initialised
      /\ Selects(inputs) => pieces < MaxPieces
      /\ pieces' = IF Selects(inputs) THEN pieces + 1 ELSE pieces
      /\ Becomes(update(Game, deltaTime, inputs, r))
      /\ UNCHANGED <<randomSource, lastIndex, thrown, page, quiz>>

FallNext == CallUpdate

SpecFall == FallInit /\ [][FallNext]_vars /\ WF_vars(CallUpdatePositive)

\* ------------------------------------------------------------- the page
\* The page of src/main.js: it constructs the engine and the InputManager,
\* starts the animation-frame loop, and restarts the game on a click of the
\* restart button.  The script is single-threaded: an event handler or a
\* frame callback runs to its end before the next one starts.

\* Math.random on the page: the I and O shapes, which stack to the top of the
\* bounded grid within MaxPieces pieces
PageSources == {{0, 1}}

\* the keys of a keydown event: the handled ones and one that is not
Keys == {"ArrowLeft", "ArrowRight", "ArrowDown", "1", "2", "3", "Enter"}

\* InputManager._handleKeyDown(event), with no modifier key held
handleKeyDown(f, key) ==
  CASE key = "ArrowLeft" -> [f EXCEPT !.moveLeft = TRUE]
    [] key = "ArrowRight" -> [f EXCEPT !.moveRight = TRUE]
    [] key = "ArrowDown" -> [f EXCEPT !.drop = TRUE]
    [] key = "1" -> [f EXCEPT !.selectShape = Num(0)]
    [] key = "2" -> [f EXCEPT !.selectShape = Num(1)]
    [] key = "3" -> [f EXCEPT !.selectShape = Num(2)]
    [] OTHER -> f

\* what a touch or click on the controls layer comes to: a drag past the
\* threshold to one side, a fast swipe down, or a tap on a preview area
Gestures == {"dragLeft", "dragRight", "swipeDown", "tap0", "tap1", "tap2"}

\* _handleTouchMove, _handleTouchEnd and _checkPreviewTap
handleTouch(f, gesture) ==
  CASE gesture = "dragLeft" -> [f EXCEPT !.moveLeft = TRUE]
    [] gesture = "dragRight" -> [f EXCEPT !.moveRight = TRUE]
    [] gesture = "swipeDown" -> [f EXCEPT !.drop = TRUE]
    [] gesture = "tap0" -> [f EXCEPT !.selectShape = Num(0)]
    [] gesture = "tap1" -> [f EXCEPT !.selectShape = Num(1)]
    [] gesture = "tap2" -> [f EXCEPT !.selectShape = Num(2)]

\* InputManager.getInputs(): the flags object itself
getInputs(f) == f

\* the reset that keeps a selection index for the next frame
resetFrameState_KeepsSelect(f) == [NoInputs EXCEPT !.selectShape = f.selectShape]

\* InputManager.resetFrameState()
resetFrameState(f) == NoInputs

\* the loop handle of the page: gameLoopId and the pending callbacks
Loop == [gameLoopId |-> gameLoopId, requests |-> requests]

\* the start that requests a frame whether or not one is pending
startGameLoop_Always(l) == [gameLoopId |-> 1, requests |-> l.requests + 1]

\* startGameLoop(): requests a frame unless gameLoopId is set
startGameLoop(l) ==
  IF l.gameLoopId = 0
  THEN [gameLoopId |-> 1, requests |-> l.requests + 1]
  ELSE l

\* stopGameLoop(): cancels the request gameLoopId names
stopGameLoop(l) ==
  IF l.gameLoopId # 0
  THEN [gameLoopId |-> 0, requests |-> l.requests - 1]
  ELSE l

\* init() of main.js: new Game(gridConfig), game.init(), inputManager.init()
\* and startGameLoop()
PageInit ==
  /\ randomSource \in PageSources
  /\ \E r1, r2, r3, r4 \in randomSource :
       Starts(init(constructor(ConfigWidth, ConfigHeight), r1, r2, r3, r4))
  /\ pieces = 1
  /\ lastIndex = Null
  /\ thrown = FALSE
  /\ frameInputs = NoInputs
  /\ gameLoopId = startGameLoop([gameLoopId |-> 0, requests |-> 0]).gameLoopId
  /\ requests = startGameLoop([gameLoopId |-> 0, requests |-> 0]).requests
  /\ lastSelect = Null
  /\ NoQuiz

\* a keydown event on the window
KeyDown ==
  \E key \in Keys :
    /\ frameInputs' = handleKeyDown(frameInputs, key)
    /\ UNCHANGED <<fields, pieces, randomSource, lastIndex, thrown,
                   gameLoopId, requests, lastSelect, quiz>>

\* a touch or click on the controls layer, which showGameOver() disables
\* (pointerEvents none) until hideGameOver(): it is enabled while the loop
\* is scheduled
Touch ==
  \E gesture \in Gestures :
    /\ gameLoopId # 0
    /\ frameInputs' = handleTouch(frameInputs, gesture)
    /\ UNCHANGED <<fields, pieces, randomSource, lastIndex, thrown,
                   gameLoopId, requests, lastSelect, quiz>>

\* gameLoop(currentTime): one pending callback runs.  It requests the next
\* frame, hands the flags to game.update, stops the loop when the game is
\* over, and resets the flags.
gameLoop ==
  \E deltaTime \in DeltaTimes :
    \E r \in IF Selects(frameInputs) THEN randomSource ELSE {0} :
      LET inputs == getInputs(frameInputs)
          g == update(Game, deltaTime, inputs, r)
          requested == [gameLoopId |-> 1, requests |-> (requests - 1) + 1]
          l == IF g.gameState = GAME_OVER THEN stopGameLoop(requested)
               ELSE requested
      IN  /\ requests > 0
          /\ Selects(frameInputs) => pieces < MaxPieces
          /\ pieces' = IF Selects(frameInputs) THEN pieces + 1 ELSE pieces
          /\ Becomes(g)
          /\ lastSelect' = inputs.selectShape
          /\ gameLoopId' = l.gameLoopId
          /\ requests' = l.requests
          /\ frameInputs' = resetFrameState(frameInputs)
          /\ UNCHANGED <<randomSource, lastIndex, thrown, quiz>>

\* restartGame(): game.init(), inputManager.reset() and startGameLoop()
restartGame ==
  \E r1, r2, r3, r4 \in randomSource :
    LET l == startGameLoop(Loop)
    IN  /\ ~ initThrows(Game)
        /\ Becomes(init(Game, r1, r2, r3, r4))
        /\ pieces' = 1
        /\ frameInputs' = resetFrameState(frameInputs)
        /\ gameLoopId' = l.gameLoopId
        /\ requests' = l.requests
        /\ UNCHANGED <<randomSource, lastIndex, thrown, lastSelect, quiz>>

PageNext ==
  \/ KeyDown
  \/ Touch
  \/ gameLoop
  \/ restartGame

SpecPage == PageInit /\ [][PageNext]_vars

\* ------------------------------------------------- calls after the game end
\* selectShape(index) called directly on a game that is over: the method has
\* no guard on gameState.  These calls come after the last counted
\* selection, so pieces does not bound them.
CallSelectShapeOver ==
  \E index \in Indices, r \in randomSource :
    /\ Initialised
    /\ gameState = GAME_OVER
    /\ Becomes(selectShape(Game, index, r))
    /\ UNCHANGED <<pieces, randomSource, lastIndex, thrown, page, quiz>>

OverNext ==
  \/ Next
  \/ CallSelectShapeOver

SpecOver == Init /\ [][OverNext]_vars

\* ------------------------------------------------- construction and reset
\* The sizes a gridConfig can leave out or get wrong: 0 stands for a width or
\* height that is missing or zero (both are falsy in the constructor), and a
\* negative number for itself.
InvalidSizes == {0, 0 - 1}

\* a game on the default grid late in play: two I pieces lie in the bottom
\* row, 18 rows have been cleared one at a time, an O piece has just spawned
LateGame ==
  [constructor(0, 0) EXCEPT
     !.board = [y \in 1 .. GRID_HEIGHT |->
                  [x \in 1 .. GRID_WIDTH |->
                     IF y = 1 /\ x > 2 THEN SHAPES[1].colorIndex + 1 ELSE 0]],
     !.currentPiece = SHAPES[2],
     !.currentPosition = [x |-> GRID_WIDTH \div 2, y |-> GRID_HEIGHT - 2],
     !.nextShapes = <<SHAPES[1], SHAPES[2], SHAPES[3]>>,
     !.score = 9 * SCORE_PER_LINE[2] + 9 * SCORE_PER_LINE[2] * 2,
     !.linesCleared = 2 * LEVEL_UP_LINES - 2,
     !.level = 2,
     !.currentFallSpeed = Max(FAST_FALL_SPEED, DecayedSpeed(2)),
     !.fallTimer = 400000,
     !.isDropping = TRUE]

\* a game on the default grid that has ended: O pieces are stacked on the
\* spawn columns up to the top row, and the next O did not fit
EndedGame ==
  [constructor(0, 0) EXCEPT
     !.board = [y \in 1 .. GRID_HEIGHT |->
                  [x \in 1 .. GRID_WIDTH |->
                     IF x - 1 \in {GRID_WIDTH \div 2, GRID_WIDTH \div 2 + 1}
                     THEN SHAPES[2].colorIndex + 1 ELSE 0]],
     !.currentPosition = [x |-> GRID_WIDTH \div 2, y |-> GRID_HEIGHT - 2],
     !.nextShapes = <<SHAPES[1], SHAPES[2], SHAPES[3]>>,
     !.gameState = GAME_OVER]

\* new Game(gridConfig) with a gridConfig that lacks a valid width or height,
\* or a game object that has been played and is about to be reset
ConfigInit ==
  /\ \E g \in {constructor(width, height) :
                 width \in InvalidSizes, height \in InvalidSizes}
                \cup {LateGame, EndedGame} :
       /\ Starts(g)
       /\ pieces = IF g.nextShapes = << >> THEN 0 ELSE 1
  /\ randomSource \in RandomSources
  /\ lastIndex = Null
  /\ thrown = FALSE
  /\ NoPage
  /\ NoQuiz

ConfigNext ==
  \/ CallInit
  \/ CallMoveHorizontal
  \/ CallMoveDown
  \/ CallStartDropping
  \/ CallPlacePiece

SpecConfig == ConfigInit /\ [][ConfigNext]_vars

\* ------------------------------------------------- drawn mid-game positions
\* A game in the middle of play, for the claims about any board and about
\* level-ups, which a bounded run from init() does not reach: the board is
\* drawn row by row, a piece is falling somewhere it fits, and level and fall
\* speed are the ones linesCleared gives.
Colours == {1, 7}

\* a row that is full, or full but for one gap of adjacent cells (the whole
\* row for the empty row)
RowPatterns(w) ==
  {[x \in 1 .. w |-> c] : c \in Colours}
    \cup {[x \in 1 .. w |-> IF from <= x /\ x <= to THEN 0 ELSE (from % 7) + 1] :
            from \in 1 .. w, to \in 1 .. w}

StartLines == {8, 18}

\* every cell of the piece is an empty cell of the board
Fits(b, piece, position) ==
  \A i \in 1 .. Len(piece.shape) :
    LET x == position.x + piece.shape[i][1]
        y == position.y + piece.shape[i][2]
    IN  /\ y + 1 \in 1 .. Len(b)
        /\ x + 1 \in 1 .. Len(b[y + 1])
        /\ b[y + 1][x + 1] = 0

\* the drawn rows with an empty top row over them
MidBoard(lower) ==
  [y \in 1 .. ConfigHeight |->
     IF y < ConfigHeight THEN lower[y] ELSE EmptyRow(ConfigWidth)]

MidInit ==
  \E lower \in [1 .. ConfigHeight - 1 -> RowPatterns(ConfigWidth)],
     r \in RandomIndices,
     x \in 0 .. ConfigWidth - 1, y \in 0 .. ConfigHeight - 1,
     lines \in StartLines :
    /\ Fits(MidBoard(lower), generateRandomShape(r), [x |-> x, y |-> y])
    /\ Starts([constructor(ConfigWidth, ConfigHeight) EXCEPT
                 !.board = MidBoard(lower),
                 !.currentPiece = generateRandomShape(r),
                 !.currentPosition = [x |-> x, y |-> y],
                 !.nextShapes = <<generateRandomShape(0), generateRandomShape(1),
                                  generateRandomShape(2)>>,
                 !.linesCleared = lines,
                 !.level = lines \div LEVEL_UP_LINES + 1,
                 !.currentFallSpeed =
                    Max(FAST_FALL_SPEED,
                        DecayedSpeed(lines \div LEVEL_UP_LINES + 1))])
    /\ pieces = 1
    /\ randomSource = {0, 1}
    /\ lastIndex = Null
    /\ thrown = FALSE
    /\ NoPage
    /\ NoQuiz

MidNext ==
  \/ CallMoveHorizontal
  \/ CallMoveDown
  \/ CallStartDropping
  \/ CallPlacePiece
  \/ CallClearLines

SpecMid == MidInit /\ [][MidNext]_vars

\* ------------------------------------------------- clearLines on any board
\* clearLines as a function of the board: the boards are drawn row by row,
\* with any number of full rows anywhere, and clearLines is called on them.
\* ScanHeight is the height of these boards.
ScanHeight == 4

\* two full rows of different colours, two rows with a gap at either end,
\* and the empty row
ScanRows(w) ==
  {[x \in 1 .. w |-> 1], [x \in 1 .. w |-> 7],
   [x \in 1 .. w |-> IF x = 1 THEN 0 ELSE 2],
   [x \in 1 .. w |-> IF x = w THEN 0 ELSE 3],
   EmptyRow(w)}

\* the lines cleared so far: none, two and one short of level 2, one short
\* of level 3, and one short of the levels around the one where the decayed
\* interval falls below FAST_FALL_SPEED
ScanLines ==
  {0, LEVEL_UP_LINES - 2}
    \cup {LEVEL_UP_LINES * lvl - 1 : lvl \in {1, 2, 26, 27, 28}}

ScanInit ==
  /\ \E b \in [1 .. ScanHeight -> ScanRows(ConfigWidth)],
        lines \in ScanLines :
       Starts([constructor(ConfigWidth, ScanHeight) EXCEPT
                 !.board = b,
                 !.nextShapes = <<generateRandomShape(0), generateRandomShape(1),
                                  generateRandomShape(2)>>,
                 !.linesCleared = lines,
                 !.level = NewLevel(lines),
                 !.currentFallSpeed =
                    Max(FAST_FALL_SPEED, DecayedSpeed(NewLevel(lines)))])
  /\ pieces = 1
  /\ randomSource = {0, 1}
  /\ lastIndex = Null
  /\ thrown = FALSE
  /\ NoPage
  /\ NoQuiz

ScanNext == CallClearLines

SpecScan == ScanInit /\ [][ScanNext]_vars

\* ------------------------------------------------------ the cube-counting quiz
\* The page of src/game.js: a CubeCounterGame shows piles of cubes and four
\* answer buttons.  Three kinds of callbacks run on it, one at a time: the
\* listener of an answer button, the setTimeout callback that checkAnswer
\* schedules, and the animation frame.

\* the quiz is played up to this level
MaxQuizLevel == 3

\* Math.random() is a multiple of 1 / RandomDen in [0, 1)
RandomDen == 12

\* the values of Math.random() that are drawn: Math.floor(r * m) takes every
\* value in 0 .. m - 1 and Math.ceil(r * m) every value in 0 .. m over them,
\* for m up to 4
Randoms == {0, 1, 5, 7, 11}

\* Math.floor(Math.random() * m), r the numerator of the random number
FloorOf(r, m) == (r * m) \div RandomDen

\* Math.ceil(Math.random() * m)
CeilOf(r, m) == (r * m + RandomDen - 1) \div RandomDen

Min(a, b) == IF a <= b THEN a ELSE b

Range(s) == {s[i] : i \in 1 .. Len(s)}

\* the random numbers of the shuffle, one for each of its three swaps: all
\* orders of four options come out of them
Shuffles == {0, 5, 7, 11} \X {0, 5, 11} \X {0, 11}

\* the random numbers one generateLevel() call draws at a level: randomPile at
\* level 1; the three pile draws from level 2 on; then the start of the
\* options and the shuffle
DrawsFor(lvl, numbers, shuffles) ==
  IF lvl = 1
  THEN [pile : numbers, first : {0}, second : {0}, third : {0},
        back : numbers, shuffle : shuffles]
  ELSE [pile : {0}, first : numbers, second : numbers, third : numbers,
        back : numbers, shuffle : shuffles]

\* the loop that fills the Set of options from startValue + i on
RECURSIVE AddOptions(_, _, _)
AddOptions(options, startValue, i) ==
  IF Len(options) >= 4 THEN options
  ELSE LET potentialOption == startValue + i
           next == IF potentialOption > 0 /\ potentialOption \notin Range(options)
                   THEN Append(options, potentialOption)
                   ELSE options
       IN  IF i > 10 THEN next ELSE AddOptions(next, startValue, i + 1)

\* the shuffle from index i down to 1: j is Math.floor(random * (i + 1))
RECURSIVE ShuffleFrom(_, _, _)
ShuffleFrom(optionsArray, i, shuffle) ==
  IF i <= 0 THEN optionsArray
  ELSE LET j == FloorOf(shuffle[Len(shuffle) + 1 - i], i + 1)
       IN  ShuffleFrom([optionsArray EXCEPT ![i + 1] = optionsArray[j + 1],
                                            ![j + 1] = optionsArray[i + 1]],
                       i - 1, shuffle)

\* the options that start up to four before the correct answer
generateOptions_FourBack(correctAnswer, back, shuffle) ==
  LET startValue == Max(1, correctAnswer - FloorOf(back, 5))
      optionsArray == AddOptions(<<correctAnswer>>, startValue, 0)
  IN  ShuffleFrom(optionsArray, Len(optionsArray) - 1, shuffle)

\* generateOptions(correctAnswer); back and shuffle are its random numbers
generateOptions(correctAnswer, back, shuffle) ==
  LET startValue == Max(1, correctAnswer - FloorOf(back, 3))
      optionsArray == AddOptions(<<correctAnswer>>, startValue, 0)
  IN  ShuffleFrom(optionsArray, Len(optionsArray) - 1, shuffle)

\* the level whose third pile is not cut to the cubes that are left
generateLevel_ThirdPileUncut(q, d) ==
  LET maxCubesForLevel == q.level
      randomPile == FloorOf(d.pile, 3)
      pile00Count == IF q.level = 1 THEN (IF randomPile = 0 THEN 1 ELSE 0)
                     ELSE CeilOf(d.first, Min(q.level, 3))
      pile01Count == IF q.level = 1 THEN (IF randomPile = 1 THEN 1 ELSE 0)
                     ELSE IF pile00Count < maxCubesForLevel
                     THEN FloorOf(d.second, maxCubesForLevel - pile00Count + 1)
                     ELSE 0
      totalCubes == pile00Count + pile01Count
      pile10Count == IF q.level = 1 THEN (IF randomPile >= 2 THEN 1 ELSE 0)
                     ELSE IF totalCubes < maxCubesForLevel
                     THEN FloorOf(d.third, 3) + 1
                     ELSE 0
      correctAnswer == pile00Count + pile01Count + pile10Count
  IN  [q EXCEPT !.correctAnswer = correctAnswer,
                !.pileCounts = <<pile00Count, pile01Count, pile10Count>>,
                !.options = generateOptions(correctAnswer, d.back, d.shuffle)]

\* generateLevel(); d holds its random numbers
generateLevel(q, d) ==
  LET maxCubesForLevel == q.level
      randomPile == FloorOf(d.pile, 3)
      pile00Count == IF q.level = 1 THEN (IF randomPile = 0 THEN 1 ELSE 0)
                     ELSE CeilOf(d.first, Min(q.level, 3))
      pile01Count == IF q.level = 1 THEN (IF randomPile = 1 THEN 1 ELSE 0)
                     ELSE IF pile00Count < maxCubesForLevel
                     THEN FloorOf(d.second, maxCubesForLevel - pile00Count + 1)
                     ELSE 0
      totalCubes == pile00Count + pile01Count
      pile10Count == IF q.level = 1 THEN (IF randomPile >= 2 THEN 1 ELSE 0)
                     ELSE IF totalCubes < maxCubesForLevel
                     THEN Min(maxCubesForLevel - totalCubes,
                              FloorOf(d.third, 3) + 1)
                     ELSE 0
      correctAnswer == pile00Count + pile01Count + pile10Count
  IN  [q EXCEPT !.correctAnswer = correctAnswer,
                !.pileCounts = <<pile00Count, pile01Count, pile10Count>>,
                !.options = generateOptions(correctAnswer, d.back, d.shuffle)]

\* createPile(count, ...): cube i of a pile waits 100 ms * i before it drops
\* (animationStartTime - 1 stands for null)
createPile(count) ==
  [i \in 1 .. count |->
     [animationDelay |-> i - 1, animationStartTime |-> 0 - 1,
      isAnimating |-> TRUE]]

\* the drop of a cube takes 500 ms
AnimationDuration == 5

\* renderCubes() at the time now
renderCubes(q, now) ==
  [q EXCEPT !.animatingCubes = TRUE,
            !.cubesToAnimate = createPile(q.pileCounts[1])
                                 \o createPile(q.pileCounts[2])
                                 \o createPile(q.pileCounts[3]),
            !.animationStartTime = now]

\* startGame() at the time now; d holds the random numbers of generateLevel
startGame(q, d, now) ==
  renderCubes(generateLevel([q EXCEPT !.isProcessingAnswer = FALSE], d), now)

\* the quiz page as the callbacks see it: the object, the pending timeouts
\* and the count of processed answers
QuizPage ==
  [cubeCounter |-> cubeCounter, timeouts |-> timeouts, answered |-> answered]

\* checkAnswer without the isProcessingAnswer flag set
checkAnswer_NoFlag(p, selectedAnswer) ==
  [cubeCounter |->
     [p.cubeCounter EXCEPT
        !.level = IF selectedAnswer = p.cubeCounter.correctAnswer
                  THEN @ + 1 ELSE @],
   timeouts |-> p.timeouts + 1,
   answered |-> p.answered + 1]

\* checkAnswer(selectedAnswer, buttonElement): either branch schedules one
\* startGame()
checkAnswer(p, selectedAnswer) ==
  [cubeCounter |->
     [p.cubeCounter EXCEPT
        !.isProcessingAnswer = TRUE,
        !.level = IF selectedAnswer = p.cubeCounter.correctAnswer
                  THEN @ + 1 ELSE @],
   timeouts |-> p.timeouts + 1,
   answered |-> p.answered + 1]

\* the listener that looks at isProcessingAnswer alone
optionListener_IgnoresAnimation(p, choiceIndex) ==
  IF p.cubeCounter.isProcessingAnswer THEN p
  ELSE checkAnswer(p, p.cubeCounter.options[choiceIndex + 1])

\* the listener initUI() puts on every option button; choiceIndex is the
\* data-choice of the button
optionListener(p, choiceIndex) ==
  IF p.cubeCounter.isProcessingAnswer \/ p.cubeCounter.animatingCubes THEN p
  ELSE checkAnswer(p, p.cubeCounter.options[choiceIndex + 1])

\* one cube in a frame at currentTime: it starts when its delay has passed
\* and ends when its duration has
animateCube(cube, animationStartTime, currentTime) ==
  IF ~ cube.isAnimating THEN cube
  ELSE LET started ==
             IF cube.animationStartTime = 0 - 1
                /\ currentTime >= animationStartTime + cube.animationDelay
             THEN [cube EXCEPT !.animationStartTime = currentTime]
             ELSE cube
       IN  IF started.animationStartTime # 0 - 1
              /\ currentTime - started.animationStartTime >= AnimationDuration
           THEN [started EXCEPT !.isAnimating = FALSE]
           ELSE started

\* animate() at currentTime
animate(q, currentTime) ==
  IF q.animatingCubes
  THEN LET cubes == [i \in 1 .. Len(q.cubesToAnimate) |->
                       animateCube(q.cubesToAnimate[i], q.animationStartTime,
                                   currentTime)]
           allAnimationsComplete ==
             \A i \in 1 .. Len(cubes) : ~ cubes[i].isAnimating
       IN  [q EXCEPT !.cubesToAnimate = cubes,
                     !.animatingCubes = ~ allAnimationsComplete]
  ELSE q

\* the option buttons of the page
Choices == 0 .. 3

\* the time between two animation frames, in units of 100 ms
FrameSteps == {1, 5}

\* the shuffles the played quiz draws
QuizShuffles == {<<0, 0, 0>>, <<5, 11, 0>>, <<11, 5, 11>>}

\* the engine is not on the page of the quiz
NoEngine ==
  /\ Starts(constructor(ConfigWidth, ConfigHeight))
  /\ pieces = 0
  /\ randomSource = {0, 1}
  /\ lastIndex = Null
  /\ thrown = FALSE
  /\ NoPage

\* new CubeCounterGame('game-container'): the constructor ends with
\* startGame() and the first animate()
QuizInit ==
  /\ NoEngine
  /\ \E d \in DrawsFor(1, Randoms, QuizShuffles) :
       cubeCounter = animate(startGame(NewCubeCounter, d, 0), 0)
  /\ timeouts = 0
  /\ clock = 0
  /\ answered = 0

\* a click or touch on an option button
OptionButton ==
  \E choiceIndex \in Choices :
    LET p == optionListener(QuizPage, choiceIndex)
    IN  /\ cubeCounter.level < MaxQuizLevel
        /\ cubeCounter' = p.cubeCounter
        /\ timeouts' = p.timeouts
        /\ answered' = p.answered
        /\ UNCHANGED <<fields, pieces, randomSource, lastIndex, thrown, page,
                       clock>>

\* a timeout of checkAnswer expires: startGame()
Timeout ==
  /\ timeouts > 0
  /\ \E d \in DrawsFor(cubeCounter.level, Randoms, QuizShuffles) :
       cubeCounter' = startGame(cubeCounter, d, 0)
  /\ timeouts' = timeouts - 1
  /\ clock' = 0
  /\ answered' = 0
  /\ UNCHANGED <<fields, pieces, randomSource, lastIndex, thrown, page>>

\* an animation frame: animate(); time matters only while cubes drop
AnimationFrame ==
  \E step \in FrameSteps :
    LET currentTime == IF cubeCounter.animatingCubes THEN clock + step
                       ELSE clock
    IN  /\ cubeCounter' = animate(cubeCounter, currentTime)
        /\ clock' = currentTime
        /\ UNCHANGED <<fields, pieces, randomSource, lastIndex, thrown, page,
                       timeouts, answered>>

QuizNext ==
  \/ OptionButton
  \/ Timeout
  \/ AnimationFrame

SpecQuiz == QuizInit /\ [][QuizNext]_vars

\* ------------------------------------------------------ levels of the quiz
\* generateLevel() on its own, at the levels a player can have reached: the
\* object as constructed but for the level, then one call with every outcome
\* of its random numbers.
GenLevels == 1 .. 2 * MaxQuizLevel

LevelInit ==
  /\ NoEngine
  /\ \E lvl \in GenLevels : cubeCounter = [NewCubeCounter EXCEPT !.level = lvl]
  /\ timeouts = 0
  /\ clock = 0
  /\ answered = 0

CallGenerateLevel ==
  /\ cubeCounter.options = << >>
  /\ \E d \in DrawsFor(cubeCounter.level, Randoms, Shuffles) :
       cubeCounter' = generateLevel(cubeCounter, d)
  /\ UNCHANGED <<fields, pieces, randomSource, lastIndex, thrown, page,
                 timeouts, clock, answered>>

LevelNext == CallGenerateLevel

SpecLevel == LevelInit /\ [][LevelNext]_vars

\* ------------------------------------------------- what the claims speak of
\* the rows of b with no empty cell
FullRows(b) == {y \in 1 .. Len(b) : \A x \in 1 .. Len(b[y]) : b[y][x] # 0}

\* b with the four cells of the piece at the position set to its colour
Stamp(b, piece, position) ==
  [y \in 1 .. Len(b) |->
     [x \in 1 .. Len(b[y]) |->
        IF \E i \in 1 .. Len(piece.shape) :
             /\ position.x + piece.shape[i][1] = x - 1
             /\ position.y + piece.shape[i][2] = y - 1
        THEN piece.colorIndex + 1
        ELSE b[y][x]]]

HasGap(row) == \E x \in 1 .. Len(row) : row[x] = 0

\* the rows of b that are not full, in their order, under empty rows
Compact(b, w) ==
  LET kept == SelectSeq(b, HasGap)
  IN  kept \o [k \in 1 .. Len(b) - Len(kept) |-> EmptyRow(w)]

\* the largest dy of the piece (every catalog shape has a cell with dy = 0)
MaxDy(piece) ==
  CHOOSE m \in {piece.shape[i][2] : i \in 1 .. Len(piece.shape)} :
    \A i \in 1 .. Len(piece.shape) : piece.shape[i][2] <= m

\* where a piece is spawned
SpawnAt(piece) ==
  [x |-> gridWidth \div 2, y |-> gridHeight - 1 - MaxDy(piece)]

\* the step is a selectShape call on an initialised game
SelectStep == pieces >= 1 /\ pieces' = pieces + 1

\* what a selection of the preview slot (1 .. 3) leaves, r the refill
Selected(slot, r) ==
  /\ nextShapes' =
       [k \in 1 .. 2 |-> nextShapes[IF k < slot THEN k ELSE k + 1]]
         \o <<SHAPES[r + 1]>>
  /\ currentPosition' = SpawnAt(nextShapes[slot])
  /\ IF Fits(board, nextShapes[slot], SpawnAt(nextShapes[slot]))
     THEN currentPiece' = nextShapes[slot] /\ gameState' = gameState
     ELSE currentPiece' = NoPiece /\ gameState' = GAME_OVER
  /\ UNCHANGED <<board, score, linesCleared, level, currentFallSpeed>>
  /\ fallTimer' = 0
  /\ isDropping' = FALSE

\* the step locks the active piece (moveDown that cannot move, or placePiece)
LockStep ==
  /\ currentPiece # NoPiece
  /\ currentPiece' = NoPiece
  /\ CallMoveDown \/ CallPlacePiece

\* ------------------------------------------------------------------- claims
\* C1: in every state reached from init(), by update, selectShape,
\* moveHorizontal, moveDown, startDropping, placePiece and clearLines calls,
\* the board has gridHeight rows and every row has gridWidth cells.
C1_BoardDimensions ==
  Initialised =>
    /\ Len(board) = gridHeight
    /\ \A y \in 1 .. Len(board) : DOMAIN board[y] = 1 .. gridWidth

\* a lock has cleared a row: rows were removed and added
C1_Witness == Initialised /\ linesCleared > 0 /\ Len(board) = gridHeight

\* the positions isValidMove is asked about: around and above the board
ProbePositions ==
  [x : (0 - 2) .. gridWidth + 1, y : (0 - 2) .. gridHeight + 1]

\* C2 (as claimed): isValidMove is true iff every cell of the piece has its
\* column in [0, gridWidth), a row >= 0 and, if the row is < gridHeight, an
\* empty board cell under it; a column outside the board makes it false
\* whatever the row.
C2_IsValidMoveIff ==
  Initialised =>
    \A r \in RandomIndices, position \in ProbePositions :
      isValidMove(Game, generateRandomShape(r), position)
        <=> \A i \in 1 .. Len(generateRandomShape(r).shape) :
              LET checkX == position.x + generateRandomShape(r).shape[i][1]
                  checkY == position.y + generateRandomShape(r).shape[i][2]
              IN  /\ checkX >= 0 /\ checkX < gridWidth
                  /\ checkY >= 0
                  /\ checkY < gridHeight => board[checkY + 1][checkX + 1] = 0

\* C3: after clearLines, whatever the board before, no row is full and the
\* board has gridHeight rows, the top ones empty, one for each row removed;
\* and so after every lock.
C3_ClearLinesLeavesNoFullRow ==
  [][ /\ CallClearLines =>
          /\ FullRows(board') = {}
          /\ Len(board') = gridHeight
          /\ \A y \in 1 .. gridHeight :
               y > gridHeight - Cardinality(FullRows(board))
                 => board'[y] = EmptyRow(gridWidth)
      /\ LockStep => FullRows(board') = {} /\ Len(board') = gridHeight
    ]_vars

\* clearLines, called with the piece still falling, has removed two adjacent
\* full rows (300 points at level 1) of a drawn board
C3_Witness ==
  /\ currentPiece # NoPiece
  /\ score = 300
  /\ linesCleared = 10
  /\ FullRows(board) = {}

\* C4: a lock with n full rows adds SCORE_PER_LINE[n] times the level held
\* before to the score and n to linesCleared (nothing for n = 0), and the
\* score and linesCleared change in no step but a lock or a clearLines call
\* that finds full rows.
C4_ScorePerLock ==
  [][ /\ LockStep =>
          LET n == Cardinality(FullRows(Stamp(board, currentPiece,
                                              currentPosition)))
          IN  /\ score' = score + SCORE_PER_LINE[n + 1] * level
              /\ linesCleared' = linesCleared + n
              /\ n = 1 => score' = score + 100 * level
      /\ (score' # score \/ linesCleared' # linesCleared) =>
          \/ LockStep
          \/ CallClearLines /\ FullRows(board) # {}
    ]_vars

\* one row cleared by a lock at level 2: 200 points, 19 lines
C4_Witness ==
  /\ currentPiece = NoPiece
  /\ linesCleared = 19
  /\ level = 2
  /\ score = 200

\* C5: the level changes in a step exactly when floor(linesCleared / 10) + 1,
\* with the new linesCleared, exceeds the level held before, it changes to
\* that value, and always level = floor(linesCleared / 10) + 1.
C5_LevelFollowsLines ==
  /\ [](level = linesCleared \div 10 + 1)
  /\ [][ /\ level' # level <=> linesCleared' \div 10 + 1 > level
         /\ level' # level => level' = linesCleared' \div 10 + 1
       ]_vars

\* a clear took linesCleared from 8 to 10 or more: level 2
C5_Witness == linesCleared >= 10 /\ linesCleared < 18 /\ level = 2

\* C6: selectShape with an index outside [0, 3) (negative, 3 or more,
\* undefined) leaves what selectShape(0) leaves with the same refill: slot 0
\* is the active piece (or the game is over), the former slots 1 and 2 are
\* slots 0 and 1, the refill is slot 2.
C6_InvalidIndexIsSlot0 ==
  [][ (SelectStep /\ lastIndex' \in InvalidIndices) =>
        \E r \in RandomIndices :
          /\ Selected(1, r)
          /\ Becomes(selectShape(Game, Num(0), r))
    ]_vars

\* the first piece has locked and a selection with an invalid index has put
\* the former slot 0 in play
C6_Witness ==
  /\ lastIndex \in InvalidIndices
  /\ pieces = 2
  /\ currentPiece # NoPiece
  /\ \E y \in 1 .. Len(board) : \E x \in 1 .. gridWidth : board[y][x] # 0

\* C7: a selection whose spawn position collides ends with GAME_OVER and no
\* active piece; the status turns GAME_OVER in no other way; and in
\* GAME_OVER no moveDown, moveHorizontal, startDropping or update call
\* changes the board, the score, the level or the status.
C7_GameOverOnSpawnCollision ==
  [][ /\ SelectStep => \E slot \in 1 .. 3, r \in RandomIndices : Selected(slot, r)
      /\ (gameState = PLAYING /\ gameState' = GAME_OVER) =>
           SelectStep /\ currentPiece' = NoPiece
      /\ ( /\ gameState = GAME_OVER
           /\ \/ CallMoveDown \/ CallMoveHorizontal
              \/ CallStartDropping \/ CallUpdate ) =>
           UNCHANGED <<board, score, level, gameState, linesCleared>>
    ]_vars

\* the game is over on a board with locked cells
C7_Witness ==
  /\ gameState = GAME_OVER
  /\ currentPiece = NoPiece
  /\ \E y \in 1 .. Len(board) : \E x \in 1 .. gridWidth : board[y][x] # 0

\* C8: moveDown in Falling state with the position one row lower not valid
\* sets the four cells of the piece, at its position, to colorIndex + 1 and
\* no other cell, then clears the full rows; the piece is null, the status
\* still PLAYING.
C8_LockWritesPiece ==
  [][ ( /\ gameState = PLAYING
        /\ currentPiece # NoPiece
        /\ ~ isValidMove(Game, currentPiece,
                         [currentPosition EXCEPT !.y = @ - 1])
        /\ CallMoveDown ) =>
        /\ Fits(board, currentPiece, currentPosition)
        /\ board' = Compact(Stamp(board, currentPiece, currentPosition),
                            gridWidth)
        /\ currentPiece' = NoPiece
        /\ currentPosition' = currentPosition
        /\ gameState' = PLAYING
    ]_vars

\* the first piece has come to rest on the floor and locked: its four cells
\* are on the board, the timer is reset
C8_Witness ==
  /\ Initialised
  /\ gameState = PLAYING
  /\ currentPiece = NoPiece
  /\ pieces = 1
  /\ fallTimer = 0
  /\ \E x \in 1 .. gridWidth : board[1][x] # 0
  /\ \E c \in 1 .. 7 :
       Cardinality({<<x, y>> \in (1 .. gridWidth) \X (1 .. gridHeight) :
                      board[y][x] = c}) = 4

\* C9: after init(), the preview holds exactly 3 shapes, each of the catalog,
\* also after a selection that ends the game.
C9_PreviewHoldsThree ==
  Initialised =>
    /\ Len(nextShapes) = 3
    /\ \A k \in 1 .. Len(nextShapes) :
         \E r \in RandomIndices : nextShapes[k] = SHAPES[r + 1]

\* a selection has ended the game
C9_Witness ==
  /\ gameState = GAME_OVER
  /\ pieces = 2
  /\ Len(nextShapes) = 3

\* C10: selectShape(i), i in {0, 1, 2}, makes slot i the active piece, keeps
\* the two others in their order at slots 0 and 1, and puts the refill at
\* slot 2.
C10_SelectTakesSlot ==
  [][ \A i \in 0 .. 2 :
        (SelectStep /\ lastIndex' = Num(i)) =>
          \E r \in RandomIndices : Selected(i + 1, r)
    ]_vars

\* slot 2 was selected and is in play
C10_Witness ==
  /\ lastIndex = Num(2)
  /\ pieces = 2
  /\ currentPiece # NoPiece
  /\ gameState = PLAYING

\* the state init() leaves on a grid that holds every shape: an empty board,
\* the counters at their defaults, three shapes in the preview
Fresh(b, sc, lines, lvl, speed, queue) ==
  /\ Len(b) = gridHeight
  /\ \A y \in 1 .. Len(b) : b[y] = [x \in 1 .. gridWidth |-> 0]
  /\ sc = 0
  /\ lines = 0
  /\ lvl = 1
  /\ speed = BASE_FALL_SPEED
  /\ Len(queue) = PREVIEW_COUNT
  /\ \A k \in 1 .. Len(queue) : \E r \in RandomIndices : queue[k] = SHAPES[r + 1]

\* C11: the status changes only from PLAYING to GAME_OVER; GAME_OVER stays
\* under every update, selection and move call (and under placePiece and
\* clearLines); a step out of GAME_OVER is init(), which leaves PLAYING
\* with the board, score, lines, level, speed and preview re-created.
C11_GameOverIsTerminal ==
  [][ /\ gameState = PLAYING => gameState' \in {PLAYING, GAME_OVER}
      /\ gameState = GAME_OVER =>
            /\ gameState' # GAME_OVER =>
                  /\ gameState' = PLAYING
                  /\ CallInit
                  /\ Fresh(board', score', linesCleared', level',
                           currentFallSpeed', nextShapes')
            /\ ( \/ CallUpdate \/ CallSelectShape \/ CallSelectShapeOver
                 \/ CallMoveHorizontal \/ CallMoveDown \/ CallStartDropping
                 \/ CallPlacePiece \/ CallClearLines ) =>
                  gameState' = GAME_OVER
    ]_vars

\* a selection made after the game end has put a piece on the board, and the
\* game is still over
C11_Witness ==
  /\ gameState = GAME_OVER
  /\ currentPiece # NoPiece
  /\ \E y \in 1 .. Len(board) : \E x \in 1 .. gridWidth : board[y][x] # 0


\* C12: the status turns GAME_OVER only in a spawn whose position is not
\* valid: the step is a selection of a preview shape that does not fit at its
\* spawn position, never a moveHorizontal, moveDown, startDropping, placePiece
\* or clearLines call, and an update call that ends the game starts with no
\* active piece.
C12_GameOverOnlyBySpawn ==
  [][ (gameState = PLAYING /\ gameState' = GAME_OVER) =>
        /\ pieces' = pieces + 1
        /\ currentPiece' = NoPiece
        /\ \E slot \in 1 .. Len(nextShapes) :
             /\ currentPosition' = SpawnAt(nextShapes[slot])
             /\ ~ Fits(board, nextShapes[slot], SpawnAt(nextShapes[slot]))
        /\ ~ ( \/ CallMoveHorizontal \/ CallMoveDown \/ CallStartDropping
               \/ CallPlacePiece \/ CallClearLines )
        /\ CallUpdate => currentPiece = NoPiece
    ]_vars

\* the game has ended at the spawn position of a shape that does not fit there
C12_Witness ==
  /\ gameState = GAME_OVER
  /\ currentPiece = NoPiece
  /\ pieces = MaxPieces
  /\ \E r \in RandomIndices :
       /\ currentPosition = SpawnAt(SHAPES[r + 1])
       /\ ~ Fits(board, SHAPES[r + 1], currentPosition)

\* C13: between two init() calls the score never decreases, and it changes
\* only in a step that locks the active piece and clears at least one row.
C13_ScoreMonotone ==
  [][ score' # score =>
        \/ /\ CallInit
           /\ score' = 0
        \/ /\ score' > score
           /\ score # NaN
           /\ currentPiece # NoPiece
           /\ currentPiece' = NoPiece
           /\ FullRows(Stamp(board, currentPiece, currentPosition)) # {}
           /\ linesCleared' = linesCleared
                + Cardinality(FullRows(Stamp(board, currentPiece, currentPosition)))
           /\ pieces' = pieces
    ]_vars

\* a lock has just cleared a row of a game started by init(): the score is
\* the points of that row at level 1
C13_Witness ==
  /\ score = SCORE_PER_LINE[2]
  /\ linesCleared = 1
  /\ level = 1
  /\ gameState = PLAYING
  /\ currentPiece = NoPiece
  /\ pieces = MaxPieces

\* C14: init() on the default 10x20 grid, from any state: every cell is 0,
\* score 0, linesCleared 0, level 1, the fall speed BASE_FALL_SPEED,
\* isDropping false, fallTimer 0, the status PLAYING, the active piece the
\* first generated shape at its spawn position, the preview the three shapes
\* generated after it; init() never ends in GAME_OVER.
C14_InitResets ==
  (gridWidth = GRID_WIDTH /\ gridHeight = GRID_HEIGHT) =>
    /\ ~ initThrows(Game)
    /\ \A r1, r2, r3, r4 \in randomSource :
         LET g == init(Game, r1, r2, r3, r4)
         IN  /\ Len(g.board) = GRID_HEIGHT
             /\ \A y \in 1 .. GRID_HEIGHT :
                  /\ Len(g.board[y]) = GRID_WIDTH
                  /\ \A x \in 1 .. GRID_WIDTH : g.board[y][x] = 0
             /\ g.score = 0
             /\ g.linesCleared = 0
             /\ g.level = 1
             /\ g.currentFallSpeed = BASE_FALL_SPEED
             /\ g.isDropping = FALSE
             /\ g.fallTimer = 0
             /\ g.gameState = PLAYING
             /\ g.currentPiece = SHAPES[r1 + 1]
             /\ g.currentPosition =
                  [x |-> GRID_WIDTH \div 2,
                   y |-> GRID_HEIGHT - 1 - MaxDy(SHAPES[r1 + 1])]
             /\ g.nextShapes = <<SHAPES[r2 + 1], SHAPES[r3 + 1], SHAPES[r4 + 1]>>
             /\ g.gridWidth = GRID_WIDTH
             /\ g.gridHeight = GRID_HEIGHT

\* a game on the default grid right after init(): the board is empty and the
\* first piece is at its spawn position
C14_Witness ==
  /\ gridWidth = GRID_WIDTH
  /\ gridHeight = GRID_HEIGHT
  /\ Len(board) = GRID_HEIGHT
  /\ \A y \in 1 .. GRID_HEIGHT : \A x \in 1 .. GRID_WIDTH : board[y][x] = 0
  /\ score = 0
  /\ level = 1
  /\ gameState = PLAYING
  /\ currentPiece # NoPiece
  /\ currentPosition = SpawnAt(currentPiece)
  /\ fallTimer = 0
  /\ Len(nextShapes) = PREVIEW_COUNT

\* C15: new Game(gridConfig) and init() always succeed: with a width or a
\* height that is missing, zero or negative the engine uses the defaults 10
\* and 20, and init() ends in PLAYING with an active piece.
C15_InvalidConfigFallsBack ==
  /\ [](gridWidth = GRID_WIDTH /\ gridHeight = GRID_HEIGHT /\ thrown = FALSE)
  /\ [][ CallInit => (gameState' = PLAYING /\ currentPiece' # NoPiece) ]_vars

\* C16: for each of the 7 catalog shapes the spawn pivot is
\* x = floor(gridWidth / 2), y = gridHeight - 1 - maxDy, maxDy the largest dy
\* of the shape, so that the topmost cell of the piece is in row
\* gridHeight - 1.
C16_SpawnPivot ==
  Initialised =>
    \A r \in RandomIndices :
      LET piece == SHAPES[r + 1]
          dys == {piece.shape[i][2] : i \in 1 .. Len(piece.shape)}
          g == spawnNewPiece([Game EXCEPT !.currentPiece = piece])
      IN  /\ g.currentPosition.x = gridWidth \div 2
          /\ \E maxDy \in dys :
               /\ \A dy \in dys : dy <= maxDy
               /\ g.currentPosition.y = gridHeight - 1 - maxDy
          /\ \E dy \in dys : g.currentPosition.y + dy = gridHeight - 1
          /\ \A dy \in dys : g.currentPosition.y + dy <= gridHeight - 1

\* a piece selected after the first one is at its spawn pivot, its topmost
\* cell in the top row
C16_Witness ==
  /\ pieces = 2
  /\ currentPiece # NoPiece
  /\ currentPosition.x = gridWidth \div 2
  /\ fallTimer = 0
  /\ \E i \in 1 .. Len(currentPiece.shape) :
       currentPosition.y + currentPiece.shape[i][2] = gridHeight - 1
  /\ \E i \in 1 .. Len(currentPiece.shape) :
       currentPiece.shape[i][2] > 0

\* the engine is Falling: in play with an active piece
Falling == gameState = PLAYING /\ currentPiece # NoPiece

\* C17: moveHorizontal(d), d in {-1, +1}: when the engine is Falling and
\* the position shifted by d is free, x changes by d, y stays and fallTimer
\* becomes 0; otherwise position and fallTimer stay; the board, score, level,
\* preview and active shape stay in both cases.
C17_MoveHorizontalFrame ==
  Initialised =>
    \A d \in {0 - 1, 1} :
      LET g == moveHorizontal(Game, d)
          shifted == [x |-> currentPosition.x + d, y |-> currentPosition.y]
          applies == Falling /\ Fits(board, currentPiece, shifted)
      IN  /\ applies => (g.currentPosition = shifted /\ g.fallTimer = 0)
          /\ ~ applies =>
               (g.currentPosition = currentPosition /\ g.fallTimer = fallTimer)
          /\ g.board = board
          /\ g.score = score
          /\ g.linesCleared = linesCleared
          /\ g.level = level
          /\ g.currentFallSpeed = currentFallSpeed
          /\ g.nextShapes = nextShapes
          /\ g.currentPiece = currentPiece
          /\ g.isDropping = isDropping
          /\ g.gameState = gameState

\* a falling piece has been moved one column to the left of its spawn
\* column, past the first row of its fall
C17_Witness ==
  /\ Falling
  /\ currentPosition.x = gridWidth \div 2 - 1
  /\ currentPosition.y < SpawnAt(currentPiece).y
  /\ fallTimer = 0

\* C18: moveDown() in Falling state leaves fallTimer = 0, both when the
\* piece moves one row down (y one less, x and the board as before) and when
\* it locks; called when not Falling it changes nothing.
C18_MoveDownResetsTimer ==
  Initialised =>
    LET g == moveDown(Game)
        lower == [x |-> currentPosition.x, y |-> currentPosition.y - 1]
    IN  /\ (Falling /\ Fits(board, currentPiece, lower)) =>
             /\ g.fallTimer = 0
             /\ g.currentPosition = lower
             /\ g.board = board
             /\ g.currentPiece = currentPiece
             /\ g.gameState = PLAYING
        /\ (Falling /\ ~ Fits(board, currentPiece, lower)) =>
             /\ g.fallTimer = 0
             /\ g.currentPiece = NoPiece
             /\ g.currentPosition = currentPosition
             /\ g.board # board
        /\ ~ Falling => g = Game

\* a piece has gone one row down from its spawn position in its column
C18_Witness ==
  /\ Falling
  /\ currentPosition.x = gridWidth \div 2
  /\ currentPosition.y = SpawnAt(currentPiece).y - 1
  /\ fallTimer = 0

\* the frames of an engine that is Falling: update does not read selectShape
FallingFrames == {inputs \in Inputs : inputs.selectShape = Null}

\* C19: once a drop request is applied, isDropping stays true through every
\* horizontal move and step down of the piece, and every fall step uses the
\* interval FAST_FALL_SPEED, until the piece locks; isDropping is false when
\* there is no active piece and for every newly spawned piece.
C19_DropUntilLock ==
  /\ [](currentPiece = NoPiece => isDropping = FALSE)
  /\ [](Falling =>
          \A deltaTime \in DeltaTimes, inputs \in FallingFrames :
            LET g == update(Game, deltaTime, inputs, 0)
                left == [x |-> currentPosition.x - 1, y |-> currentPosition.y]
                afterLeft == IF inputs.moveLeft /\ Fits(board, currentPiece, left)
                             THEN left ELSE currentPosition
                right == [x |-> afterLeft.x + 1, y |-> afterLeft.y]
                moved == \/ afterLeft # currentPosition
                         \/ inputs.moveRight /\ Fits(board, currentPiece, right)
                timer == (IF moved THEN 0 ELSE fallTimer) + deltaTime
            IN  (isDropping \/ inputs.drop) =>
                  IF timer >= FAST_FALL_SPEED
                  THEN /\ g.fallTimer = 0
                       /\ \/ g.currentPiece = NoPiece
                          \/ /\ g.isDropping
                             /\ g.currentPosition.y = currentPosition.y - 1
                  ELSE /\ g.fallTimer = timer
                       /\ g.isDropping
                       /\ g.currentPiece = currentPiece
                       /\ g.currentPosition.y = currentPosition.y)
  /\ [][ /\ (isDropping /\ ~ isDropping') =>
              \/ currentPiece' = NoPiece
              \/ /\ currentPosition' = SpawnAt(currentPiece')
                 /\ fallTimer' = 0
                 /\ pieces' = pieces + 1 \/ CallInit
                      \/ CallSelectShapeOver
         /\ (pieces' = pieces + 1 \/ pieces = 0) => ~ isDropping'
    ]_vars

\* a piece that is dropping has been moved to the left and has gone down
C19_Witness ==
  /\ Falling
  /\ isDropping
  /\ currentPosition.x < gridWidth \div 2
  /\ currentPosition.y < SpawnAt(currentPiece).y

\* C20: an update call that selects (in play, no active piece,
\* inputs.selectShape not null) gives the moveLeft, moveRight and drop flags
\* and deltaTime no effect: the piece of the chosen slot, when it fits, is at
\* its spawn position with fallTimer 0 and isDropping false, and the board is
\* as before.
C20_SelectionFrame ==
  (Initialised /\ gameState = PLAYING /\ currentPiece = NoPiece) =>
    \A deltaTime \in DeltaTimes, inputs \in Inputs, r \in randomSource :
      inputs.selectShape # Null =>
        LET g == update(Game, deltaTime, inputs, r)
            chosen == nextShapes[inputs.selectShape.value + 1]
            quiet == [inputs EXCEPT !.moveLeft = FALSE, !.moveRight = FALSE,
                                    !.drop = FALSE]
        IN  /\ g = update(Game, 0, quiet, r)
            /\ g.board = board
            /\ g.fallTimer = 0
            /\ g.isDropping = FALSE
            /\ g.currentPosition = SpawnAt(chosen)
            /\ IF Fits(board, chosen, SpawnAt(chosen))
               THEN g.currentPiece = chosen /\ g.gameState = PLAYING
               ELSE g.currentPiece = NoPiece /\ g.gameState = GAME_OVER

\* the second piece of a game has been selected over a locked first piece
\* and is at its spawn position
C20_Witness ==
  /\ pieces = 2
  /\ Falling
  /\ currentPosition = SpawnAt(currentPiece)
  /\ fallTimer = 0
  /\ isDropping = FALSE
  /\ \E y \in 1 .. Len(board) : \E x \in 1 .. gridWidth : board[y][x] # 0

\* frame times to try on one update call: none, one fast interval, one level
\* interval less a microsecond, one level interval, and many intervals
FrameTimes ==
  DeltaTimes \cup {0, FAST_FALL_SPEED, BASE_FALL_SPEED - 1, BASE_FALL_SPEED,
                   10 * BASE_FALL_SPEED}

\* the position and timer the move flags of a frame leave, before the frame
\* time is added: left is tried first, then right from where left ended
AfterMoves(inputs) ==
  LET left == [x |-> currentPosition.x - 1, y |-> currentPosition.y]
      afterLeft == IF inputs.moveLeft /\ Fits(board, currentPiece, left)
                   THEN left ELSE currentPosition
      right == [x |-> afterLeft.x + 1, y |-> afterLeft.y]
      goesRight == inputs.moveRight /\ Fits(board, currentPiece, right)
  IN  [position |-> IF goesRight THEN right ELSE afterLeft,
       fallTimer |-> IF goesRight \/ afterLeft # currentPosition
                     THEN 0 ELSE fallTimer]

\* C21: one update call on a Falling engine adds deltaTime to fallTimer;
\* when the sum has reached the interval (FAST_FALL_SPEED when dropping,
\* else currentFallSpeed) the piece steps down one row or locks and
\* fallTimer is 0, however large deltaTime is; when the sum is below the
\* interval the piece keeps its row and fallTimer is the sum.
C21_OneStepPerUpdate ==
  (Initialised /\ Falling) =>
    \A deltaTime \in FrameTimes, inputs \in FallingFrames :
      LET g == update(Game, deltaTime, inputs, 0)
          moved == AfterMoves(inputs)
          timer == moved.fallTimer + deltaTime
          interval == IF isDropping \/ inputs.drop THEN FAST_FALL_SPEED
                      ELSE currentFallSpeed
          lower == [x |-> moved.position.x, y |-> moved.position.y - 1]
      IN  IF timer >= interval
          THEN /\ g.fallTimer = 0
               /\ IF Fits(board, currentPiece, lower)
                  THEN /\ g.currentPosition = lower
                       /\ g.currentPiece = currentPiece
                       /\ g.board = board
                  ELSE /\ g.currentPiece = NoPiece
                       /\ g.currentPosition = moved.position
          ELSE /\ g.fallTimer = timer
               /\ g.currentPosition = moved.position
               /\ g.currentPiece = currentPiece
               /\ g.board = board

\* a piece that is not dropping has gone down a row when its timer reached
\* the level interval, and half an interval has passed since
C21_Witness ==
  /\ Falling
  /\ ~ isDropping
  /\ currentPosition.y = SpawnAt(currentPiece).y - 1
  /\ fallTimer = 400000

\* a frame with no time to fall and a frame of a whole level interval
StepTimes == {0, BASE_FALL_SPEED}

\* the frames that carry a selection index
SelectingFrames == {inputs \in Inputs : inputs.selectShape # Null}

\* C22: on a Falling engine an update whose inputs carry a selection index
\* selects nothing: the preview queue is as before, the call leaves what the
\* same call without the index leaves, the move flags are applied (column
\* and drop request), and the active shape is as before unless this call
\* locks the piece, which leaves no active piece.
C22_NoSelectionWhileFalling ==
  (Initialised /\ Falling) =>
    \A deltaTime \in StepTimes, inputs \in SelectingFrames,
       r \in randomSource :
      LET g == update(Game, deltaTime, inputs, r)
          moved == AfterMoves(inputs)
          lower == [x |-> moved.position.x, y |-> moved.position.y - 1]
          interval == IF isDropping \/ inputs.drop THEN FAST_FALL_SPEED
                      ELSE currentFallSpeed
          locks == /\ moved.fallTimer + deltaTime >= interval
                   /\ ~ Fits(board, currentPiece, lower)
      IN  /\ g = update(Game, deltaTime, [inputs EXCEPT !.selectShape = Null], r)
          /\ g.nextShapes = nextShapes
          /\ g.currentPosition.x = moved.position.x
          /\ g.gameState = PLAYING
          /\ IF locks
             THEN g.currentPiece = NoPiece /\ g.board # board
             ELSE /\ g.currentPiece = currentPiece
                  /\ g.isDropping = (isDropping \/ inputs.drop)
                  /\ g.board = board

\* the first piece of a game, at its spawn row, has been moved one column to
\* the right and asked to drop, in frames with no time to fall
C22_Witness ==
  /\ Falling
  /\ pieces = 1
  /\ currentPosition.x = gridWidth \div 2 + 1
  /\ currentPosition.y = SpawnAt(currentPiece).y
  /\ isDropping
  /\ fallTimer = 0

\* C22 as worded: the active shape and the preview queue are unchanged by
\* every update call that carries a selection index while a piece is active.
C22_ShapeUnchangedByCall ==
  (Initialised /\ Falling) =>
    \A deltaTime \in StepTimes, inputs \in SelectingFrames,
       r \in randomSource :
      LET g == update(Game, deltaTime, inputs, r)
      IN  /\ g.currentPiece = currentPiece
          /\ g.nextShapes = nextShapes

C24_LoopStopsAtGameOver ==
  /\ [](gameState = GAME_OVER => (gameLoopId = 0 /\ requests = 0))
  /\ [](requests = IF gameLoopId = 0 THEN 0 ELSE 1)
  /\ [][gameState = GAME_OVER => (UNCHANGED fields \/ restartGame)]_vars
  /\ [](\A r1, r2, r3, r4 \in randomSource :
          LET g == init(Game, r1, r2, r3, r4)
              l == startGameLoop(Loop)
          IN  /\ g.gameState = PLAYING
              /\ g.currentPiece # NoPiece
              /\ l.gameLoopId # 0
              /\ l.requests = 1)

\* the game has ended in a frame that selected a piece, the loop is stopped,
\* and a key pressed since then waits with no frame to see it
C24_Witness ==
  /\ gameState = GAME_OVER
  /\ lastSelect # Null
  /\ gameLoopId = 0
  /\ requests = 0
  /\ frameInputs.moveLeft

\* the cell values the shapes of this run can write
RunColours == {SHAPES[r + 1].colorIndex + 1 : r \in randomSource}

\* C25: every board cell is 0 or colorIndex + 1 (1 .. 7) of a catalog shape
\* the run can have locked; and a lock with its line clear alters no value:
\* every row it leaves is empty or a row of the board with the piece written
\* on it.
C25_CellValues ==
  Initialised =>
    /\ \A y \in 1 .. Len(board) : \A x \in 1 .. Len(board[y]) :
         /\ board[y][x] \in 0 .. Len(SHAPES)
         /\ board[y][x] \in {0} \cup RunColours
    /\ currentPiece # NoPiece =>
         LET g == placePiece(Game)
             written == Stamp(board, currentPiece, currentPosition)
         IN  \A y \in 1 .. Len(g.board) :
               \/ g.board[y] = EmptyRow(gridWidth)
               \/ \E k \in y .. Len(written) : g.board[y] = written[k]

\* a lock has cleared a row and cells of two colours are left on the board
C25_Witness ==
  /\ Initialised
  /\ linesCleared > 0
  /\ \E y1, y2 \in 1 .. Len(board) : \E x1, x2 \in 1 .. gridWidth :
       /\ board[y1][x1] # 0
       /\ board[y2][x2] # 0
       /\ board[y1][x1] # board[y2][x2]

\* the rows a piece at a position has cells in
RowsOf(piece, position) ==
  {position.y + piece.shape[i][2] : i \in 1 .. Len(piece.shape)}

\* C26: the rows one lock clears are rows the locked piece has a cell in,
\* and no catalog shape has cells in more than 4 rows; so the count is at
\* most 4, the index into SCORE_PER_LINE is within the table, and the score
\* is a number (never NaN); a clearLines call with no lock clears nothing.
C26_AtMostFourRows ==
  /\ \A k \in 1 .. Len(SHAPES) :
       Cardinality(RowsOf(SHAPES[k], [x |-> 0, y |-> 0]))
         <= Len(SCORE_PER_LINE) - 1
  /\ score # NaN
  /\ score >= 0
  /\ Initialised =>
       /\ ClearScan(board, gridWidth, 0, 0)[2] = 0
       /\ currentPiece # NoPiece =>
            LET written == WriteCells(board, currentPiece, currentPosition, 1)
                n == ClearScan(written, gridWidth, 0, 0)[2]
            IN  /\ n <= Cardinality(RowsOf(currentPiece, currentPosition))
                /\ n + 1 \in DOMAIN SCORE_PER_LINE
                /\ placePiece(Game).score =
                     score + SCORE_PER_LINE[n + 1] * level

\* the second piece of a game has locked and cleared one row, for the score
\* of one line, and cells of it are left on the board
C26_Witness ==
  /\ linesCleared = 1
  /\ score = SCORE_PER_LINE[2] * level
  /\ currentPiece = NoPiece
  /\ \E y \in 1 .. Len(board) : \E x \in 1 .. gridWidth : board[y][x] # 0

\* C27: clearLines leaves the rows that are not full, with their contents
\* and in their order from the bottom, under one empty row for each full row
\* there was, wherever the full rows were and however many were adjacent;
\* linesCleared grows by the number of full rows.
C27_ClearLinesCompacts ==
  LET g == clearLines(Game)
      full == Cardinality(FullRows(board))
  IN  /\ g.board = Compact(board, gridWidth)
      /\ Len(g.board) = gridHeight
      /\ SelectSeq(g.board, RowFull) = << >>
      /\ \A y \in 1 .. gridHeight :
           y > gridHeight - full => g.board[y] = EmptyRow(gridWidth)
      /\ g.linesCleared = linesCleared + full

\* two adjacent full rows have been removed from under or between two rows
\* with gaps, which lie at the bottom in the order they had
C27_Witness ==
  /\ linesCleared = 2
  /\ board[1] = [x \in 1 .. gridWidth |-> IF x = 1 THEN 0 ELSE 2]
  /\ board[2] = [x \in 1 .. gridWidth |-> IF x = gridWidth THEN 0 ELSE 3]
  /\ \A y \in 3 .. gridHeight : board[y] = EmptyRow(gridWidth)

\* C28: a step that changes the level raises it and leaves currentFallSpeed
\* = max(FAST_FALL_SPEED, BASE_FALL_SPEED * 0.9 ^ (level - 1)) for the new
\* level: 0.72 s at level 2, 0.648 s at level 3, and FAST_FALL_SPEED once
\* the decayed interval is below it; in every state currentFallSpeed is at
\* least FAST_FALL_SPEED, and no step of a game increases it.
C28_FallSpeedByLevel ==
  /\ [](currentFallSpeed >= FAST_FALL_SPEED)
  /\ [](currentFallSpeed = Max(FAST_FALL_SPEED, DecayedSpeed(level)))
  /\ [][currentFallSpeed' <= currentFallSpeed]_vars
  /\ [][level' # level =>
          /\ level' > level
          /\ currentFallSpeed' = Max(FAST_FALL_SPEED, DecayedSpeed(level'))
          /\ level' = 2 => currentFallSpeed' = 720000
          /\ level' = 3 => currentFallSpeed' = 648000
          /\ DecayedSpeed(level) > FAST_FALL_SPEED =>
               currentFallSpeed' < currentFallSpeed
          /\ DecayedSpeed(level') <= FAST_FALL_SPEED =>
               currentFallSpeed' = FAST_FALL_SPEED
     ]_vars

\* two rows cleared at 8 lines took the game to level 2 and 0.72 s
C28_Witness ==
  /\ linesCleared = LEVEL_UP_LINES
  /\ level = 2
  /\ currentFallSpeed = 720000
  /\ score = SCORE_PER_LINE[3]

\* one row cleared at 269 lines took the game to level 28, the first level
\* whose decayed interval is below FAST_FALL_SPEED
C28_FloorReached ==
  /\ linesCleared = LEVEL_UP_LINES * 27
  /\ level = 28
  /\ currentFallSpeed = FAST_FALL_SPEED
  /\ DecayedSpeed(27) > FAST_FALL_SPEED

\* the cells of a piece at a position, as <<column, row>>
CellsOf(piece, position) ==
  {<<position.x + piece.shape[i][1], position.y + piece.shape[i][2]>> :
     i \in 1 .. Len(piece.shape)}

\* the cells of a board that are not empty
Filled(b) ==
  {<<x - 1, y - 1>> : x \in 1 .. gridWidth, y \in 1 .. Len(b)}
    \ {c \in {<<x - 1, y - 1>> : x \in 1 .. gridWidth, y \in 1 .. Len(b)} :
         b[c[2] + 1][c[1] + 1] = 0}

\* C29: an active piece is at a valid position, and each of its four cells
\* is inside the board, column in [0, gridWidth) and row in [0, gridHeight),
\* on an empty cell; so the write of a lock skips no cell and overwrites
\* none: it fills four cells that were empty and leaves the others.
C29_PieceInsideBoard ==
  (Initialised /\ currentPiece # NoPiece) =>
    LET cells == CellsOf(currentPiece, currentPosition)
        written == WriteCells(board, currentPiece, currentPosition, 1)
    IN  /\ gameState = PLAYING
        /\ isValidMove(Game, currentPiece, currentPosition)
        /\ Cardinality(cells) = 4
        /\ \A c \in cells :
             /\ c[1] >= 0 /\ c[1] < gridWidth
             /\ c[2] >= 0 /\ c[2] < gridHeight
             /\ board[c[2] + 1][c[1] + 1] = 0
        /\ Filled(written) = Filled(board) \cup cells
        /\ Cardinality(Filled(written)) = Cardinality(Filled(board)) + 4
        /\ \A c \in Filled(board) :
             written[c[2] + 1][c[1] + 1] = board[c[2] + 1][c[1] + 1]

\* the second piece of a game has been moved to the left wall and has
\* fallen below its spawn row, beside or over the cells of the first
C29_Witness ==
  /\ Falling
  /\ pieces = 2
  /\ \E c \in CellsOf(currentPiece, currentPosition) : c[1] = 0
  /\ currentPosition.y < SpawnAt(currentPiece).y
  /\ Filled(board) # {}

\* C30: under frames that keep coming with deltaTime > 0, whatever their
\* moveLeft, moveRight and drop flags, a piece that is falling eventually
\* locks (or ends the fall in some other way).
C30_PieceEventuallyLocks == Falling ~> ~ Falling

\* the game after n moveDown() calls in a row, nothing else in between
RECURSIVE MoveDowns(_, _)
MoveDowns(g, n) == IF n = 0 THEN g ELSE moveDown(MoveDowns(g, n - 1))

\* the lowest row a cell of the piece is in
LowestRow(piece, position) ==
  CHOOSE m \in {position.y + piece.shape[i][2] : i \in 1 .. Len(piece.shape)} :
    \A i \in 1 .. Len(piece.shape) : m <= position.y + piece.shape[i][2]

\* C31: from any Falling state, moveDown() called again and again with no
\* other call in between locks the piece after at most gridHeight calls:
\* every call that does not lock takes the pivot row strictly down, leaves
\* the game Falling with the same piece, and no cell of the piece is ever
\* below row 0.
C31_MoveDownTerminates ==
  Falling =>
    /\ LowestRow(currentPiece, currentPosition) >= 0
    /\ \E n \in 1 .. gridHeight :
         /\ MoveDowns(Game, n).currentPiece = NoPiece
         /\ \A k \in 0 .. n - 1 :
              LET g == MoveDowns(Game, k)
                  h == moveDown(g)
              IN  /\ g.gameState = PLAYING /\ g.currentPiece = currentPiece
                  /\ h.currentPiece # NoPiece =>
                       /\ h.currentPosition.y < g.currentPosition.y
                       /\ LowestRow(h.currentPiece, h.currentPosition) >= 0
                       /\ h.gameState = PLAYING
                  /\ h.currentPiece = NoPiece => k = n - 1

\* a piece at the top row of an empty column range: it takes gridHeight
\* calls, no fewer, to lock it
C31_Witness ==
  /\ Falling
  /\ currentPosition.y = gridHeight - 1
  /\ MoveDowns(Game, gridHeight - 1).currentPiece # NoPiece
  /\ MoveDowns(Game, gridHeight).currentPiece = NoPiece

\* C32: in every state between two calls of the engine (after init() and
\* after any update or moveDown call, and after the other methods as well)
\* the board has no full row: a lock clears the rows it completes before it
\* returns.
C32_NoFullRowBetweenCalls ==
  /\ FullRows(board) = {}
  /\ Initialised => \A y \in 1 .. Len(board) : Len(board[y]) = gridWidth

\* a lock has completed a row and cleared it, and cells of the locked
\* pieces are left on the board
C32_Witness ==
  /\ linesCleared > 0
  /\ gameState = PLAYING
  /\ currentPiece = NoPiece
  /\ \E y \in 1 .. Len(board) : \E x \in 1 .. Len(board[y]) : board[y][x] # 0

\* the pieces locked since init(), under the frame loop: every selection
\* since init() has spawned a piece that was locked later, but for the last
\* one while it is still falling or when it found no room and ended the game
Locked ==
  IF currentPiece # NoPiece \/ gameState = GAME_OVER THEN pieces - 1 ELSE pieces

\* C33: the non-empty cells of the board are 4 times the pieces locked since
\* init() minus gridWidth times linesCleared; a lock of the active piece adds
\* exactly 4 cells and takes gridWidth cells off for each row it counts as
\* cleared.
C33_CellConservation ==
  /\ Cardinality(Filled(board)) = 4 * Locked - gridWidth * linesCleared
  /\ currentPiece # NoPiece =>
       LET g == placePiece(Game)
       IN  Cardinality(Filled(g.board)) =
             Cardinality(Filled(board)) + 4
               - gridWidth * (g.linesCleared - linesCleared)

\* two pieces have been locked and one row has been cleared
C33_Witness ==
  /\ gameState = PLAYING
  /\ currentPiece = NoPiece
  /\ pieces = 2
  /\ linesCleared = 1
  /\ Cardinality(Filled(board)) = 8 - gridWidth

\* C34: one update call on a Falling engine with both moveLeft and
\* moveRight set leaves the column where it was or one to the right (one to
\* the right exactly when the left neighbour position is blocked and the
\* right one is free), never one to the left; with moveLeft alone it is one
\* to the left when that position is free and unchanged otherwise, with
\* moveRight alone one to the right when free and unchanged otherwise, and
\* with neither it is unchanged; whether the call also steps down or locks.
C34_LeftBeforeRight ==
  (Initialised /\ Falling) =>
    \A deltaTime \in StepTimes, inputs \in Inputs :
      LET g == update(Game, deltaTime, inputs, 0)
          dx == g.currentPosition.x - currentPosition.x
          leftFree == Fits(board, currentPiece,
                           [x |-> currentPosition.x - 1, y |-> currentPosition.y])
          rightFree == Fits(board, currentPiece,
                            [x |-> currentPosition.x + 1, y |-> currentPosition.y])
      IN  /\ (inputs.moveLeft /\ inputs.moveRight) =>
               /\ dx \in {0, 1}
               /\ dx = 1 <=> (~ leftFree /\ rightFree)
          /\ (inputs.moveLeft /\ ~ inputs.moveRight) =>
               dx = IF leftFree THEN 0 - 1 ELSE 0
          /\ (~ inputs.moveLeft /\ inputs.moveRight) =>
               dx = IF rightFree THEN 1 ELSE 0
          /\ (~ inputs.moveLeft /\ ~ inputs.moveRight) => dx = 0

\* a piece has been moved to where its left neighbour position is blocked
\* and its right one is free: a frame with both flags takes it to the right
C34_Witness ==
  /\ Falling
  /\ currentPosition.x # gridWidth \div 2
  /\ ~ Fits(board, currentPiece,
            [x |-> currentPosition.x - 1, y |-> currentPosition.y])
  /\ Fits(board, currentPiece,
          [x |-> currentPosition.x + 1, y |-> currentPosition.y])
  /\ update(Game, 0, [NoInputs EXCEPT !.moveLeft = TRUE, !.moveRight = TRUE],
            0).currentPosition.x = currentPosition.x + 1

\* the engine awaits a selection: in play with no active piece
AwaitingSelection == gameState = PLAYING /\ currentPiece = NoPiece

\* C35: while the engine awaits a selection, an update call whose
\* inputs.selectShape is null changes no field of the game, whatever the
\* frame time and the move and drop flags are: board, score, lines, level,
\* preview, position, fallTimer, fall speed, isDropping and status stay, and
\* so does the state after any number of such calls.
C35_WaitsForSelection ==
  AwaitingSelection =>
    \A deltaTime \in FrameTimes, inputs \in FallingFrames, r \in randomSource :
      LET g == update(Game, deltaTime, inputs, r)
      IN  /\ g = Game
          /\ g.gameState = PLAYING /\ g.currentPiece = NoPiece

\* a piece has been locked, cells are on the board, and no shape has been
\* selected since
C35_Witness ==
  /\ AwaitingSelection
  /\ pieces >= 1
  /\ Filled(board) # {}
  /\ update(Game, BASE_FALL_SPEED,
            [moveLeft |-> TRUE, moveRight |-> TRUE, drop |-> TRUE,
             selectShape |-> Null], 0) = Game

\* four distinct positive consecutive integers with the answer among them
FourAround(options, answer) ==
  /\ Len(options) = 4
  /\ Cardinality(Range(options)) = 4
  /\ \A i \in 1 .. 4 : options[i] \in Nat /\ options[i] >= 1
  /\ \A i, j \in 1 .. 4 : options[i] - options[j] <= 3
  /\ answer \in Range(options)

\* C36: generateOptions(correctAnswer) returns four distinct positive
\* consecutive integers with correctAnswer among them, for every
\* correctAnswer >= 1 and every random number; and generateLevel() leaves
\* correctAnswer equal to the sum of the three pile counts, at least 1 and at
\* most the level, with such options for it.
C36_OptionsAndAnswer ==
  /\ \A back \in 0 .. RandomDen - 1, shuffle \in Shuffles :
       FourAround(generateOptions(cubeCounter.level, back, shuffle),
                  cubeCounter.level)
  /\ cubeCounter.options # << >> =>
       /\ FourAround(cubeCounter.options, cubeCounter.correctAnswer)
       /\ \A i \in 1 .. 3 : cubeCounter.pileCounts[i] \in Nat
       /\ cubeCounter.correctAnswer =
            cubeCounter.pileCounts[1] + cubeCounter.pileCounts[2]
              + cubeCounter.pileCounts[3]
       /\ cubeCounter.correctAnswer >= 1
       /\ cubeCounter.correctAnswer <= cubeCounter.level

\* past level 1 the first two piles have come out empty (Math.random() gave
\* 0 for the first), the answer is 1, and the shuffle has put 4 first
C36_Witness ==
  /\ cubeCounter.level > 1
  /\ cubeCounter.pileCounts = <<0, 0, 1>>
  /\ cubeCounter.correctAnswer = 1
  /\ cubeCounter.options[1] = 4

\* the answer is the level itself, the most it can be, and the options start
\* two below it
C36_FullLevel ==
  /\ cubeCounter.level = 2 * MaxQuizLevel
  /\ cubeCounter.correctAnswer = cubeCounter.level
  /\ Range(cubeCounter.options) =
       cubeCounter.level - 2 .. cubeCounter.level + 1

\* C37: whatever the order of button clicks, expired timeouts and animation
\* frames, at most one answer is processed for each generated level and at
\* most one startGame() is pending; a click while isProcessingAnswer or
\* animatingCubes is set changes nothing; and the level changes only by one
\* step up, in a click on the button of the correct answer that is the first
\* answer to the question shown.
C37_OneAnswerPerQuestion ==
  /\ [](/\ answered = (IF cubeCounter.isProcessingAnswer THEN 1 ELSE 0)
        /\ timeouts = answered
        /\ (cubeCounter.isProcessingAnswer \/ cubeCounter.animatingCubes) =>
             \A choiceIndex \in Choices :
               optionListener(QuizPage, choiceIndex) = QuizPage)
  /\ [][ cubeCounter'.level # cubeCounter.level =>
           /\ cubeCounter'.level = cubeCounter.level + 1
           /\ answered = 0 /\ answered' = 1
           /\ ~ cubeCounter.isProcessingAnswer /\ ~ cubeCounter.animatingCubes
           /\ \E choiceIndex \in Choices :
                /\ cubeCounter.options[choiceIndex + 1] = cubeCounter.correctAnswer
                /\ cubeCounter' =
                     checkAnswer(QuizPage, cubeCounter.correctAnswer).cubeCounter
           /\ cubeCounter'.correctAnswer = cubeCounter.correctAnswer
           /\ cubeCounter'.options = cubeCounter.options
       ]_vars
  /\ [][ answered' > answered =>
           /\ ~ cubeCounter.isProcessingAnswer /\ ~ cubeCounter.animatingCubes
           /\ cubeCounter'.isProcessingAnswer
           /\ timeouts' = timeouts + 1
       ]_vars

\* the second question has been answered wrongly after the first was
\* answered correctly: the level is 2 and its startGame() is pending
C37_Witness ==
  /\ cubeCounter.level = 2
  /\ cubeCounter.correctAnswer = 2
  /\ cubeCounter.isProcessingAnswer
  /\ ~ cubeCounter.animatingCubes
  /\ answered = 1
  /\ timeouts = 1

====
